---- MODULE Spec2Model ----
(***************************************************************************)
(* Model of @iobroker/webserver: WebServer.init (server-mode decision      *)
(* tree), WebServer.buildSecureContexts (collection mapping -> SNI table), *)
(* the SNICallback installed by init (per-handshake resolution), and the   *)
(* CertificateManager reads / change subscription they rely on (Spec);     *)
(* and the CertificateManager store methods setCollection, delCollection,  *)
(* getCollection, getCollectionIds called in sequence (SpecStore) and by   *)
(* two clients at once (SpecWriters); the access-control wrapper           *)
(* (SpecAccess); and OAuth2Model.getUser with its failure records          *)
(* (SpecOAuth).                                                            *)
(*                                                                         *)
(* JavaScript values are modelled as follows.                              *)
(*   string              sequence of one-character strings                 *)
(*   Record<string, T>   [tag |-> "object", entries |-> sequence of        *)
(*                       <<key, value>> pairs with distinct keys, in       *)
(*                       insertion (= enumeration) order]                  *)
(*   undefined / null    the records Undefined / Null                      *)
(*   boolean, string     [tag |-> "boolean" / "string", value |-> ...]     *)
(*                       where a value of several types is possible        *)
(*   tls.SecureContext   [tag |-> "SecureContext", key, of]: key is the    *)
(*                       material it was compiled from, of names the       *)
(*                       mapping key it was compiled for                   *)
(***************************************************************************)
EXTENDS Integers, Sequences, FiniteSets, TLC

VARIABLES
    secure,                     \* WebServer.secure (constructor, line 63)
    leCollection,               \* adapter.config.leCollection
    obj,                        \* the persisted object system.certificates
    pc,                         \* position of init()
    customCertificates,         \* init's local customCertificates
    customCertificatesContext,  \* init's local customCertificatesContext
    contexts,                   \* init's local contexts, captured by both closures
    built,                      \* the mapping the last buildSecureContexts call received
    server,                     \* WebServer.server
    error,                      \* what init() rejected with
    listener,                   \* filter of the registered objectChange listener
    queue,                      \* objectChange events emitted and not yet handled
    log,                        \* adapter.log entries of init and of the subscription callback
    io,                         \* external calls made by init
    sni,                        \* the last SNICallback invocation: what it read and handed to callback
    changes,                    \* number of writes to the persisted object so far
    call,                       \* the CertificateManager call that completed last
    earlier,                    \* outcome of the (at most two) calls completed before it
    delivered,                  \* what the objectChange listener did with the last event
    accessControl,              \* WebServer.accessControl (constructor, line 69)
    app,                        \* WebServer.app
    requestListener,            \* the request listener the created server was given
    returned,                   \* what init() resolved with
    response,                   \* what the last request handled by the server caused
    writers,                    \* the concurrent setCollection / delCollection calls in progress
    applied,                    \* the writes of those calls, in the order the store applied them
    bruteForce,                 \* OAuth2Model.bruteForce
    now,                        \* the clock read by Date.now()
    pending,                    \* getUser calls waiting for adapter.checkPassword
    getUserCalls,               \* number of getUser calls made so far
    clockSteps,                 \* number of clock advances so far
    user                        \* what the getUser call that resolved last did

vars == <<secure, leCollection, obj, pc, customCertificates, customCertificatesContext,
          contexts, built, server, error, listener, queue, log, io, sni, changes,
          call, earlier, delivered, accessControl, app, requestListener, returned,
          response, writers, applied, bruteForce, now, pending, getUserCalls, clockSteps,
          user>>

\* the variables of the access-control wrapper and of the concurrent writers
accessVars == <<accessControl, app, requestListener, returned, response>>
writerVars == <<writers, applied>>

\* the variables of the OAuth2 model
oauthVars == <<bruteForce, now, pending, getUserCalls, clockSteps, user>>

----------------------------------------------------------------------------
\* Bounds of the model.

\* writes to the persisted object after init() has returned
MaxChanges == 1

----------------------------------------------------------------------------
\* JavaScript values.

Undefined == [tag |-> "undefined"]
Null == [tag |-> "null"]
Bool(b) == [tag |-> "boolean", value |-> b]
Str(s) == [tag |-> "string", value |-> s]
Obj(entries) == [tag |-> "object", entries |-> entries]

\* a value the language treats as true in a condition
Truthy(v) ==
    CASE v.tag \in {"undefined", "null"} -> FALSE
      [] v.tag = "boolean" -> v.value
      [] v.tag = "string" -> Len(v.value) > 0
      [] OTHER -> TRUE

\* v === true, v === false
isTrue(v) == v.tag = "boolean" /\ v.value
isFalse(v) == v.tag = "boolean" /\ ~v.value

\* PEM text, malformed PEM text and a bare file path, the cases the code tells apart
PemText == <<"P", "E", "M">>
BadText == <<"b", "a", "d">>
PemPath == <<"k", ".", "p", "e", "m">>

\* String.prototype.endsWith('.pem')
endsWithPem(s) ==
    /\ Len(s) >= 4
    /\ SubSeq(s, Len(s) - 3, Len(s)) = <<".", "p", "e", "m">>

\* String.prototype.split('.')
RECURSIVE split(_)
split(s) ==
    IF \A i \in 1..Len(s) : s[i] # "."
    THEN <<s>>
    ELSE LET i == CHOOSE k \in 1..Len(s) : s[k] = "." /\ \A j \in 1..(k - 1) : s[j] # "."
         IN  <<SubSeq(s, 1, i - 1)>> \o split(SubSeq(s, i + 1, Len(s)))

\* Array.prototype.join('.')
RECURSIVE join(_)
join(parts) ==
    IF Len(parts) = 0 THEN <<>>
    ELSE IF Len(parts) = 1 THEN parts[1]
    ELSE parts[1] \o <<".">> \o join(Tail(parts))

\* Object.keys of a plain object
Keys(o) == [i \in 1..Len(o.entries) |-> o.entries[i][1]]
KeySet(o) == {o.entries[i][1] : i \in 1..Len(o.entries)}

\* a name every plain object inherits from Object.prototype
ObjectPrototypeKeys == {<<"c", "o", "n", "s", "t", "r", "u", "c", "t", "o", "r">>}
Inherited == [tag |-> "ObjectPrototypeProperty"]

\* the operator `name in o` on a plain object: own keys and inherited ones
In(name, o) == name \in KeySet(o) \/ name \in ObjectPrototypeKeys

\* o[name] on a plain object
Get(o, name) ==
    IF name \in KeySet(o)
    THEN o.entries[CHOOSE i \in 1..Len(o.entries) : o.entries[i][1] = name][2]
    ELSE IF name \in ObjectPrototypeKeys THEN Inherited ELSE Undefined

\* (variant) an existing key keeps its first value
PutKeepFirst(o, name, value) ==
    IF name \in KeySet(o) THEN o ELSE Obj(Append(o.entries, <<name, value>>))

\* o[name] = value on a plain object: an existing key keeps its position
Put(o, name, value) ==
    IF name \in KeySet(o)
    THEN Obj([i \in 1..Len(o.entries) |->
                 IF o.entries[i][1] = name THEN <<name, value>> ELSE o.entries[i]])
    ELSE Obj(Append(o.entries, <<name, value>>))

----------------------------------------------------------------------------
\* The values the model draws its inputs from.

\* SNI server names and domain patterns: 's.e.c', '*.e.c', 'a.b.e.c', 'l', 'constructor'
hSub == <<"s", ".", "e", ".", "c">>
hWild == <<"*", ".", "e", ".", "c">>
hDeep == <<"a", ".", "b", ".", "e", ".", "c">>
hLocal == <<"l">>
hProto == <<"c", "o", "n", "s", "t", "r", "u", "c", "t", "o", "r">>
ServerNames == {hSub, hWild, hDeep, hLocal, hProto}

\* key/certificate material of collections
Pem1 == <<"P", "E", "M", "1">>
Pem2 == <<"P", "E", "M", "2">>

\* CertificateCollection (certificateManager.ts 5-19) without the optional chain
Collection(key, domains) ==
    [tag |-> "collection", from |-> "acme", tsExpires |-> 1, key |-> key, cert |-> key,
     domains |-> domains]

\* one wildcard collection, one that lists a host and the same wildcard, one whose
\* key is malformed
CollectionValues ==
    { Collection(Pem1, <<hWild>>),
      Collection(Pem2, <<hSub, hWild>>),
      Collection(BadText, <<hLocal>>) }

\* collection ids: 'c1', 'c2' may be in the store, 'c9' never is
c1 == <<"c", "1">>
c2 == <<"c", "2">>
c9 == <<"c", "9">>
CollectionIds == {c1, c2}

\* every Record<string, CertificateCollection> over CollectionIds, in every key order
CollectionMappings ==
    {Obj(<<>>)}
    \cup {Obj(<< <<i, c>> >>) : i \in CollectionIds, c \in CollectionValues}
    \cup {Obj(<< <<i, c>>, <<j, d>> >>) :
            <<i, j>> \in {p \in CollectionIds \X CollectionIds : p[1] # p[2]},
            <<c, d>> \in CollectionValues \X CollectionValues}

\* the persisted object system.certificates: absent, without native.collections, or with it
StoredObject(collections) == [tag |-> "object", native |-> [collections |-> collections]]
StoreValues == {Null, StoredObject(Undefined)} \cup {StoredObject(m) : m \in CollectionMappings}

\* config.leCollection: true, false, unset, '', an id of the store's universe, another id
LeCollectionValues ==
    {Bool(TRUE), Bool(FALSE), Undefined, Str(<<>>), Str(c1), Str(c9)}

\* what adapter.getCertificatesAsync resolves with ([certs] or nothing) or that it rejects
Certificates(key, cert, ca) == [tag |-> "object", key |-> key, cert |-> cert, ca |-> ca]
Rejected == [tag |-> "rejected"]
HostCertificateResults ==
    { Rejected, Null,
      Certificates(PemText, PemText, Undefined),
      Certificates(BadText, PemText, Undefined),
      Certificates(PemPath, PemText, Undefined),
      Certificates(PemText, PemPath, Undefined),
      Certificates(PemText, PemText, Str(PemPath)) }

\* adapter.log entries
Log(level, msg) == [level |-> level, msg |-> msg]

----------------------------------------------------------------------------
\* WebServer.getCustomCertificates and the TLS primitive.

\* getCustomCertificates (webServer.ts 313-343) on what getCertificatesAsync gave:
\* the value it resolves with, or that it rejects, and what it logged
getCustomCertificates(result) ==
    IF result = Rejected
    THEN [threw |-> TRUE, value |-> Null, log |-> {}]
    ELSE IF ~Truthy(result)
    THEN [threw |-> FALSE, value |-> Null, log |-> {}]
    ELSE IF endsWithPem(result.key)
    THEN [threw |-> FALSE, value |-> Null, log |-> {Log("error", "Cannot load custom certificates")}]
    ELSE IF endsWithPem(result.cert)
    THEN [threw |-> FALSE, value |-> Null, log |-> {Log("error", "Cannot load custom certificates")}]
    ELSE IF Truthy(result.ca) /\ result.ca.tag = "string" /\ endsWithPem(result.ca.value)
    THEN [threw |-> FALSE, value |-> Null, log |-> {Log("error", "Cannot load custom certificates")}]
    ELSE [threw |-> FALSE, value |-> result, log |-> {}]

\* tls.createSecureContext(options) as init and buildSecureContexts call it: a missing
\* options argument is read as {}, so the call returns an (empty) context object and
\* never a falsy value; malformed key or certificate text makes it throw
SecureContext(key, of) == [tag |-> "SecureContext", key |-> key, of |-> of]
createSecureContext(options, of) ==
    IF ~Truthy(options)
    THEN [threw |-> FALSE, value |-> SecureContext(<<>>, of)]
    ELSE IF options.key = BadText \/ options.cert = BadText
    THEN [threw |-> TRUE, value |-> Undefined]
    ELSE [threw |-> FALSE, value |-> SecureContext(options.key, of)]

----------------------------------------------------------------------------
\* WebServer.buildSecureContexts (webServer.ts 290-308).

\* (variant) a domain that is already in the table keeps its context
RECURSIVE registerDomainsUnlessTaken(_, _, _)
registerDomainsUnlessTaken(table, domains, context) ==
    IF domains = <<>> THEN table
    ELSE registerDomainsUnlessTaken(
             IF Head(domains) \in KeySet(table) THEN table
             ELSE Put(table, Head(domains), context),
             Tail(domains), context)

\* the inner loop (301-304): contexts[domain] = context for every listed domain
RECURSIVE registerDomains(_, _, _)
registerDomains(table, domains, context) ==
    IF domains = <<>> THEN table
    ELSE registerDomains(Put(table, Head(domains), context), Tail(domains), context)

\* the outer loop (295-305) over Object.entries(collections); reading collection.key of
\* an undefined or null collection throws a TypeError, createSecureContext may throw
RECURSIVE buildEntries(_, _)
buildEntries(table, entries) ==
    IF entries = <<>>
    THEN [threw |-> FALSE, value |-> table, error |-> "none"]
    ELSE LET collectionId == Head(entries)[1]
             collection == Head(entries)[2]
         IN  IF ~Truthy(collection)
             THEN [threw |-> TRUE, value |-> Undefined, error |-> "TypeError"]
             ELSE LET made == createSecureContext(collection, collectionId)
                  IN  IF made.threw
                      THEN [threw |-> TRUE, value |-> Undefined, error |-> "Error"]
                      ELSE buildEntries(registerDomains(table, collection.domains, made.value),
                                        Tail(entries))

buildSecureContexts(collections) == buildEntries(Obj(<<>>), collections.entries)

----------------------------------------------------------------------------
\* The SNICallback installed by init (webServer.ts 228-278).

\* (variant) a wildcard over every label but the last two
wildcardAnyDepth(serverName) ==
    LET serverParts == split(serverName)
    IN  IF Len(serverParts) > 1
        THEN join(<< <<"*">> >> \o SubSeq(serverParts, Len(serverParts) - 1, Len(serverParts)))
        ELSE Undefined

\* lines 240-244: replace the left-most label by '*' when there are at least two labels
wildcardOf(serverName) ==
    LET serverParts == split(serverName)
    IN  IF Len(serverParts) > 1
        THEN join(<< <<"*">> >> \o Tail(serverParts))
        ELSE Undefined

\* lines 231-254: the context found in the table, or undefined
lookup(table, serverName) ==
    IF ~Truthy(table) THEN Undefined
    ELSE IF In(serverName, table) THEN Get(table, serverName)
    ELSE IF Len(split(serverName)) > 1 /\ In(wildcardOf(serverName), table)
    THEN Get(table, wildcardOf(serverName))
    ELSE Undefined

\* (variant) a callback that reports an error when the table has no context for the name
SNICallbackErrorOnMiss(table, fallback, serverName) ==
    LET context == lookup(table, serverName)
    IN  IF Truthy(context)
        THEN [calls |-> 1, err |-> Null, context |-> context, log |-> {},
              branch |-> IF In(serverName, table) THEN "exact" ELSE "wildcard"]
        ELSE [calls |-> 1, err |-> [tag |-> "Error"], context |-> Undefined, log |-> {},
              branch |-> "none"]

\* (variant) a callback whose fallback step hands out the first context of the table
\* when there is one
SNICallbackFallbackFromTable(table, fallback, serverName) ==
    LET context == lookup(table, serverName)
    IN  IF Truthy(context)
        THEN [calls |-> 1, err |-> Null, context |-> context, log |-> {},
              branch |-> IF In(serverName, table) THEN "exact" ELSE "wildcard"]
        ELSE IF Truthy(table) /\ Len(Keys(table)) > 0
        THEN [calls |-> 1, err |-> Null, context |-> Get(table, Keys(table)[1]), log |-> {},
              branch |-> "fallback"]
        ELSE [calls |-> 1, err |-> Null, context |-> fallback, log |-> {}, branch |-> "fallback"]

\* the whole callback: what it hands to callback(err, context), what it logs, and the
\* branch that produced the context
SNICallback(table, fallback, serverName) ==
    LET context == lookup(table, serverName)
    IN  IF Truthy(context)
        THEN [calls |-> 1, err |-> Null, context |-> context, log |-> {},
              branch |-> IF In(serverName, table) THEN "exact" ELSE "wildcard"]
        ELSE IF Truthy(fallback)
        THEN [calls |-> 1, err |-> Null, context |-> fallback, log |-> {}, branch |-> "fallback"]
        ELSE IF Truthy(table)
        THEN IF Len(Keys(table)) = 0
             THEN [calls |-> 1, err |-> Null, context |-> Undefined, branch |-> "none",
                   log |-> {Log("error", "Could not derive secure context")}]
             ELSE [calls |-> 1, err |-> Null, context |-> Get(table, Keys(table)[1]), branch |-> "last resort",
                   log |-> {Log("warn", "No matching context - using first certificate collection")}]
        ELSE [calls |-> 1, err |-> Null, context |-> Undefined, branch |-> "none",
              log |-> {Log("error", "Could not find any certificates")}]

----------------------------------------------------------------------------
\* CertificateManager reads (certificateManager.ts 38-67).

\* getAllCollections on the object read, or on a failed read: collections || null
getAllCollections(object, readFails) ==
    IF readFails
    THEN [value |-> Null, log |-> {Log("error", "No certificates found")}]
    ELSE IF ~Truthy(object) \/ ~Truthy(object.native.collections)
    THEN [value |-> Null, log |-> {}]
    ELSE [value |-> object.native.collections, log |-> {}]

\* getCollection: collections ? collections[collectionId] : null
getCollection(object, readFails, collectionId) ==
    LET all == getAllCollections(object, readFails)
    IN  [value |-> IF Truthy(all.value) THEN Get(all.value, collectionId) ELSE Null,
         log |-> all.log]

----------------------------------------------------------------------------
\* WebServer.init (webServer.ts 121-284), one action per stretch between two awaits.

\* http.createServer(app) and https.createServer(options, app)
HttpServer == [tag |-> "Server", type |-> "http", options |-> "none"]
HttpsServer(options) == [tag |-> "Server", type |-> "https", options |-> options]

\* what init() rejects with
Thrown(name, message, mentions) == [name |-> name, message |-> message, mentions |-> mentions]

\* the name the fallback context is compiled for
custom == <<"c", "u", "s", "t", "o", "m">>

\* options.app, and the header-setting wrapper initAccessControl puts around it (84-114)
App == [tag |-> "app"]
Wrapper(originalApp) == [tag |-> "wrapper", originalApp |-> originalApp]

\* WebServerAccessControl (6-21) with its boolean option and one of its six string options
AccessControl(allowCredentials, allowOrigin) ==
    [tag |-> "object", accessControlAllowCredentials |-> allowCredentials,
     accessControlAllowOrigin |-> allowOrigin]

\* options.accessControl: unset, without any option, with an empty string, with either
\* option, with both
AccessControlValues ==
    { Undefined,
      AccessControl(Undefined, Undefined),
      AccessControl(Undefined, Str(<<>>)),
      AccessControl(Bool(FALSE), Undefined),
      AccessControl(Undefined, Str(<<"*">>)),
      AccessControl(Bool(TRUE), Str(<<"*">>)) }

\* the condition of initAccessControl (73-82)
hasAccessControl(options) ==
    /\ Truthy(options)
    /\ \/ options.accessControlAllowCredentials # Undefined
       \/ Truthy(options.accessControlAllowOrigin)

\* initAccessControl (72-116): this.app afterwards
initAccessControl(options, original) ==
    IF hasAccessControl(options) THEN Wrapper(original) ELSE original

\* the res.setHeader calls of the wrapper (85-110), in order
setHeaders(options) ==
    IF ~Truthy(options) THEN <<>>
    ELSE (IF options.accessControlAllowCredentials # Undefined
          THEN << <<"Access-Control-Allow-Credentials",
                    IF options.accessControlAllowCredentials.value THEN "true" ELSE "false">> >>
          ELSE <<>>)
         \o (IF Truthy(options.accessControlAllowOrigin)
             THEN << <<"Access-Control-Allow-Origin", options.accessControlAllowOrigin.value>> >>
             ELSE <<>>)

\* a request listener handles a request: the headers set before the application runs,
\* and the application run (113)
handle(handler, options) ==
    IF handler.tag = "wrapper"
    THEN [headers |-> setHeaders(options), ran |-> handler.originalApp]
    ELSE [headers |-> <<>>, ran |-> handler]

\* (variant) the created server is returned and the server field left unset
resolveUnassigned(created) == [server |-> Undefined, returned |-> created]

\* this.server = created; return this.server (125-126, 154-155, 162-164, 177-178,
\* 185-187, 282-283)
resolve(created) == [server |-> created, returned |-> created]

\* (variant) plain http whether or not fallback certificates were loaded
degradeToPlain(certificates, note) ==
    [threw |-> FALSE, server |-> HttpServer,
     log |-> {Log("error", "Could not find self-signed certificate - falling back to insecure http")}]

\* (variant) with fallback certificates the degrade path creates the SNI server
degradeToSni(certificates, note) ==
    IF Truthy(certificates)
    THEN IF createSecureContext(certificates, custom).threw
         THEN [threw |-> TRUE, server |-> Undefined, log |-> {note}]
         ELSE [threw |-> FALSE, server |-> HttpsServer("SNICallback"), log |-> {note}]
    ELSE [threw |-> FALSE, server |-> HttpServer,
          log |-> {Log("error", "Could not find self-signed certificate - falling back to insecure http")}]

\* (variant) the plain http server is created without the error entry
degradeSilently(certificates, note) ==
    IF Truthy(certificates)
    THEN IF createSecureContext(certificates, custom).threw
         THEN [threw |-> TRUE, server |-> Undefined, log |-> {note}]
         ELSE [threw |-> FALSE, server |-> HttpsServer("customCertificates"), log |-> {note}]
    ELSE [threw |-> FALSE, server |-> HttpServer, log |-> {}]

\* lines 151-165 and 174-188: serve with the fallback certificates, or in plain http
degrade(certificates, note) ==
    IF Truthy(certificates)
    THEN IF createSecureContext(certificates, custom).threw
         THEN [threw |-> TRUE, server |-> Undefined, log |-> {note}]
         ELSE [threw |-> FALSE, server |-> HttpsServer("customCertificates"), log |-> {note}]
    ELSE [threw |-> FALSE, server |-> HttpServer,
          log |-> {Log("error", "Could not find self-signed certificate - falling back to insecure http")}]

\* (variant) a configured id is treated like true
neverSpecific(collectionId) == FALSE

\* collectionId && typeof collectionId === 'string' (line 140)
isSpecific(collectionId) == Truthy(collectionId) /\ collectionId.tag = "string"

\* collectionId === true ? null : collectionId || null (line 199)
subscriptionFilter(collectionId) ==
    IF isTrue(collectionId) THEN Null
    ELSE IF Truthy(collectionId) THEN collectionId ELSE Null

\* (variant) a certificate manager whatever secure is
alwaysCertManager(secureFlag) == TRUE

\* the constructor (62-70) creates the certificate manager only when secure is set
hasCertManager(secureFlag) == secureFlag

\* (variant) only a missing mapping counts as no collections
noCollectionsNullOnly(collections) == ~Truthy(collections)

\* !collections || !Object.keys(collections).length (line 146)
noCollections(collections) == ~Truthy(collections) \/ Len(Keys(collections)) = 0

\* lines 122-131: plain http without a certificate manager, else ask the host for the
\* fallback certificates
InitStart ==
    /\ pc = "constructed"
    /\ IF ~hasCertManager(secure)
       THEN /\ log' = log \cup {Log("debug", "Secure connection not enabled - using http createServer")}
            /\ app' = initAccessControl(accessControl, app)
            /\ requestListener' = app'
            /\ server' = resolve(HttpServer).server
            /\ returned' = resolve(HttpServer).returned
            /\ pc' = "returned"
            /\ io' = io
       ELSE /\ io' = io \cup {"getCertificatesAsync"}
            /\ pc' = "awaitCertificates"
            /\ UNCHANGED <<log, server, app, requestListener, returned>>
    /\ UNCHANGED <<secure, leCollection, obj, customCertificates, customCertificatesContext,
                   contexts, built, error, listener, queue, sni, changes, call, earlier,
                   delivered,
                   accessControl, response, writerVars, oauthVars>>

\* lines 131-145 and 171-189: the fallback certificates arrive (or the call rejects); then
\* either the store is read or, with leCollection === false, the server is created
InitCertificates(result) ==
    /\ pc = "awaitCertificates"
    /\ LET loaded == getCustomCertificates(result)
           done == degrade(loaded.value, Log("debug", "Use self-signed certificates or custom certificates"))
       IN  IF loaded.threw
           THEN /\ pc' = "threw"
                /\ error' = Thrown("Error", "getCertificatesAsync rejected", {})
                /\ UNCHANGED <<customCertificates, log, io, server, app, requestListener,
                               returned>>
           ELSE /\ customCertificates' = loaded.value
                /\ IF isSpecific(leCollection) \/ ~isFalse(leCollection)
                   THEN /\ pc' = "awaitCollections"
                        /\ io' = io \cup {"getForeignObjectAsync"}
                        /\ log' = log \cup loaded.log
                        /\ UNCHANGED <<error, server, app, requestListener, returned>>
                   ELSE /\ io' = io
                        /\ log' = log \cup loaded.log \cup done.log
                        /\ app' = initAccessControl(accessControl, app)
                        /\ IF done.threw
                           THEN /\ pc' = "threw"
                                /\ error' = Thrown("Error", "https.createServer", {})
                                /\ UNCHANGED <<server, requestListener, returned>>
                           ELSE /\ pc' = "returned"
                                /\ requestListener' = app'
                                /\ server' = resolve(done.server).server
                                /\ returned' = resolve(done.server).returned
                                /\ error' = error
    /\ UNCHANGED <<secure, leCollection, obj, customCertificatesContext, contexts, built,
                   listener, queue, sni, changes, call, earlier, delivered,
                   accessControl, response, writerVars, oauthVars>>


\* (variant) the callback empties the table when it is called with an error or without
\* a mapping
onCollectionsClearOnError(table, fallback, filter, err, collections) ==
    IF ~Truthy(err) /\ Truthy(collections)
    THEN LET made == buildSecureContexts(collections)
         IN  IF made.threw
             THEN [contexts |-> table, rebuilt |-> FALSE,
                   log |-> {Log("uncaught", made.error)}]
             ELSE [contexts |-> made.value, rebuilt |-> TRUE, log |-> {}]
    ELSE [contexts |-> Obj(<<>>), rebuilt |-> FALSE,
          log |-> {Log("error", "Error updating certificate collections")}]

\* (variant) the callback registers the delivered collections in the table in use
\* instead of assigning a freshly built one
onCollectionsPatch(table, fallback, filter, err, collections) ==
    IF ~Truthy(err) /\ Truthy(collections)
    THEN LET made == buildEntries(table, collections.entries)
         IN  IF made.threw
             THEN [contexts |-> table, rebuilt |-> FALSE,
                   log |-> {Log("uncaught", made.error)}]
             ELSE [contexts |-> made.value, rebuilt |-> TRUE, log |-> {}]
    ELSE [contexts |-> table, rebuilt |-> FALSE,
          log |-> {Log("error", "Error updating certificate collections")}]

\* the subscription callback of init (webServer.ts 200-223) on (err, collections): the
\* table the closure variable contexts holds afterwards, and what was logged; an
\* exception of buildSecureContexts leaves the handler before contexts is assigned
onCollections(table, fallback, filter, err, collections) ==
    IF ~Truthy(err) /\ Truthy(collections)
    THEN LET made == buildSecureContexts(collections)
         IN  IF made.threw
             THEN [contexts |-> table, rebuilt |-> FALSE,
                   log |-> {Log("uncaught", made.error)}]
             ELSE [contexts |-> made.value, rebuilt |-> TRUE,
                   log |-> IF Len(Keys(made.value)) = 0
                           THEN {Log("warn", "Could not find any certificate collections after update")}
                                \cup IF ~Truthy(fallback)
                                     THEN {Log("error", "HTTPS requests will now fail")}
                                     ELSE {}
                           ELSE {}]
    ELSE IF Truthy(err)
    THEN [contexts |-> table, rebuilt |-> FALSE,
          log |-> {Log("error", "Error updating certificate collections")}]
    ELSE [contexts |-> table, rebuilt |-> FALSE,
          log |-> {Log("error", "removed from certificate collections")}]

\* lines 140-170 and 191-283: the store read completes (or fails); degrade when all
\* collections were asked for and none exists, else compile the fallback context, build
\* the table, subscribe and create the https server with the SNICallback
InitCollections(readFails) ==
    /\ pc = "awaitCollections"
    /\ LET read == IF isSpecific(leCollection)
                   THEN getCollection(obj, readFails, leCollection.value)
                   ELSE getAllCollections(obj, readFails)
           collections == IF isSpecific(leCollection)
                          THEN Obj(<< <<leCollection.value, read.value>> >>)
                          ELSE read.value
           done == degrade(customCertificates,
                           Log("warn", "Falling back to self-signed certificates or to custom certificates"))
           fallback == createSecureContext(customCertificates, custom)
           made == buildSecureContexts(collections)
       IN  IF ~isSpecific(leCollection) /\ noCollections(collections)
           THEN /\ log' = log \cup read.log \cup done.log
                           \cup {Log("warn", "Could not find any certificate collections")}
                /\ app' = initAccessControl(accessControl, app)
                /\ IF done.threw
                   THEN /\ pc' = "threw"
                        /\ error' = Thrown("Error", "https.createServer", {})
                        /\ UNCHANGED <<server, requestListener, returned>>
                   ELSE /\ pc' = "returned"
                        /\ requestListener' = app'
                        /\ server' = resolve(done.server).server
                        /\ returned' = resolve(done.server).returned
                        /\ error' = error
                /\ UNCHANGED <<customCertificatesContext, contexts, built, listener, io>>
           ELSE IF fallback.threw
           THEN /\ pc' = "threw"
                /\ error' = Thrown("Error", "tls.createSecureContext", {})
                /\ log' = log \cup read.log
                /\ UNCHANGED <<customCertificatesContext, contexts, built, listener, io, server,
                               app, requestListener, returned>>
           ELSE IF ~Truthy(collections)
           THEN /\ pc' = "returned"
                /\ customCertificatesContext' = fallback.value
                /\ requestListener' = app
                /\ server' = resolve(HttpsServer("SNICallback")).server
                /\ returned' = resolve(HttpsServer("SNICallback")).returned
                /\ log' = log \cup read.log \cup {Log("debug", "Using https createServer")}
                /\ UNCHANGED <<contexts, built, listener, io, error, app>>
           ELSE IF made.threw
           THEN /\ pc' = "threw"
                /\ error' = Thrown(made.error, "buildSecureContexts", {})
                /\ log' = log \cup read.log
                /\ UNCHANGED <<customCertificatesContext, contexts, built, listener, io, server,
                               app, requestListener, returned>>
           ELSE /\ pc' = "returned"
                /\ customCertificatesContext' = fallback.value
                /\ contexts' = made.value
                /\ built' = collections
                /\ listener' = [tag |-> "listener", filter |-> subscriptionFilter(leCollection)]
                /\ io' = io \cup {"subscribeForeignObjects"}
                /\ requestListener' = app
                /\ server' = resolve(HttpsServer("SNICallback")).server
                /\ returned' = resolve(HttpsServer("SNICallback")).returned
                /\ log' = log \cup read.log \cup {Log("debug", "Using https createServer")}
                /\ UNCHANGED <<error, app>>
    /\ UNCHANGED <<secure, leCollection, obj, customCertificates, queue, sni, changes,
                   call, earlier, delivered,
                   accessControl, response, writerVars, oauthVars>>

----------------------------------------------------------------------------
\* The persisted object, its change events, and TLS handshakes.

\* Object.keys(o) without name, in order (the delete operator)
RECURSIVE without(_, _)
without(entries, name) ==
    IF entries = <<>> THEN <<>>
    ELSE IF Head(entries)[1] = name THEN without(Tail(entries), name)
    ELSE <<Head(entries)>> \o without(Tail(entries), name)

\* the keys setCollection requires (line 76)
mandatory == {"from", "tsExpires", "key", "cert", "domains"}

\* the entry extendForeignObject leaves under collectionId: the host merges the given
\* collection into the stored one field by field, so a stored field the given collection
\* does not carry stays
extendEntry(collections, collectionId, collection) ==
    IF collectionId \in KeySet(collections)
    THEN LET stored == Get(collections, collectionId)
         IN  [k \in DOMAIN stored \cup DOMAIN collection |->
                 IF k \in DOMAIN collection THEN collection[k] ELSE stored[k]]
    ELSE collection

\* (variant) setCollection whose merge appends the domains to those already stored
setCollectionAppendingDomains(object, collectionId, collection) ==
    IF ~(mandatory \subseteq DOMAIN collection)
    THEN [threw |-> TRUE, written |-> FALSE, object |-> object,
          error |-> "At least one mandatory key missing from collection"]
    ELSE [threw |-> FALSE, written |-> TRUE, error |-> "none",
          object |-> IF Truthy(object) /\ Truthy(object.native.collections)
                     THEN IF collectionId \in KeySet(object.native.collections)
                          THEN StoredObject(Put(object.native.collections, collectionId,
                                   [collection EXCEPT !.domains =
                                       Get(object.native.collections, collectionId).domains \o @]))
                          ELSE StoredObject(Put(object.native.collections, collectionId, collection))
                     ELSE StoredObject(Obj(<< <<collectionId, collection>> >>))]

\* (variant) setCollection checking the key material and the domains only
setCollectionLaxCheck(object, collectionId, collection) ==
    IF ~({"key", "cert", "domains"} \subseteq DOMAIN collection)
    THEN [threw |-> TRUE, written |-> FALSE, object |-> object,
          error |-> "At least one mandatory key missing from collection"]
    ELSE [threw |-> FALSE, written |-> TRUE, error |-> "none",
          object |-> IF Truthy(object) /\ Truthy(object.native.collections)
                     THEN StoredObject(Put(object.native.collections, collectionId,
                              extendEntry(object.native.collections, collectionId, collection)))
                     ELSE StoredObject(Obj(<< <<collectionId, collection>> >>))]

\* (variant) setCollection writing the object with the one collection only, as
\* setForeignObject would
setCollectionReplacing(object, collectionId, collection) ==
    IF ~(mandatory \subseteq DOMAIN collection)
    THEN [threw |-> TRUE, written |-> FALSE, object |-> object,
          error |-> "At least one mandatory key missing from collection"]
    ELSE [threw |-> FALSE, written |-> TRUE, error |-> "none",
          object |-> StoredObject(Obj(<< <<collectionId, collection>> >>))]

\* setCollection (certificateManager.ts 75-88) on the stored object: the mandatory keys
\* are checked, then extendForeignObject merges {native: {collections: {[id]: c}}}
setCollection(object, collectionId, collection) ==
    IF ~(mandatory \subseteq DOMAIN collection)
    THEN [threw |-> TRUE, written |-> FALSE, object |-> object,
          error |-> "At least one mandatory key missing from collection"]
    ELSE [threw |-> FALSE, written |-> TRUE, error |-> "none",
          object |-> IF Truthy(object) /\ Truthy(object.native.collections)
                     THEN StoredObject(Put(object.native.collections, collectionId,
                              extendEntry(object.native.collections, collectionId, collection)))
                     ELSE StoredObject(Obj(<< <<collectionId, collection>> >>))]

\* delCollection (certificateManager.ts 95-112) on the stored object, or on a failed
\* read: the object is written back when `collectionId in obj.native.collections`
delCollection(object, readFails, collectionId) ==
    IF readFails
    THEN [threw |-> TRUE, written |-> FALSE, object |-> object, error |-> "No certificates found"]
    ELSE IF Truthy(object) /\ Truthy(object.native.collections)
            /\ In(collectionId, object.native.collections)
    THEN [threw |-> FALSE, written |-> TRUE, error |-> "none",
          object |-> StoredObject(Obj(without(object.native.collections.entries, collectionId)))]
    ELSE [threw |-> FALSE, written |-> FALSE, object |-> object, error |-> "none"]

\* getCollectionIds (certificateManager.ts 150-158): Object.keys(collections) or []
getCollectionIds(object, readFails) ==
    IF readFails
    THEN [threw |-> TRUE, value |-> Undefined, error |-> "No certificates found"]
    ELSE IF Truthy(object) /\ Truthy(object.native.collections)
    THEN [threw |-> FALSE, value |-> Keys(object.native.collections), error |-> "none"]
    ELSE [threw |-> FALSE, value |-> <<>>, error |-> "none"]

\* a write of system.certificates reaches the store; the host emits objectChange to the
\* registered listener. Before init() has read the store a write only changes what
\* init reads, which Init covers
written(value) ==
    /\ changes < MaxChanges
    /\ pc \in {"returned", "threw"}
    /\ changes' = changes + 1
    /\ obj' = value
    /\ queue' = IF Truthy(listener) THEN Append(queue, value) ELSE queue
    /\ UNCHANGED <<secure, leCollection, pc, customCertificates, customCertificatesContext,
                   contexts, built, server, error, listener, log, io, sni, call, earlier,
                   delivered,
                   accessVars, writerVars, oauthVars>>

\* a certificate-issuing component stores a collection
SetCollection(collectionId, collection) ==
    /\ setCollection(obj, collectionId, collection).written
    /\ written(setCollection(obj, collectionId, collection).object)

\* a component removes a collection
DelCollection(collectionId) ==
    /\ delCollection(obj, FALSE, collectionId).written
    /\ written(delCollection(obj, FALSE, collectionId).object)

\* the object is deleted, or rewritten without native.collections
ObjectRemoved(value) ==
    /\ value # obj
    /\ written(value)

\* the key of the single-entry mapping the filtered subscription delivers (line 137)
collectionIdLiteral == <<"c", "o", "l", "l", "e", "c", "t", "i", "o", "n", "I", "d">>

\* (variant) a listener that delivers the whole mapping whatever the filter
objectChangeUnfiltered(filter, object) ==
    IF ~Truthy(object) \/ ~Truthy(object.native.collections)
    THEN [called |-> FALSE, err |-> Null, collections |-> Undefined]
    ELSE [called |-> TRUE, err |-> Null, collections |-> object.native.collections]

\* (variant) a listener that also returns without calling back when the mapping is empty
objectChangeUnlessEmpty(filter, object) ==
    IF ~Truthy(object) \/ ~Truthy(object.native.collections)
       \/ Len(object.native.collections.entries) = 0
    THEN [called |-> FALSE, err |-> Null, collections |-> Undefined]
    ELSE LET collections == object.native.collections
         IN  IF ~Truthy(filter)
             THEN [called |-> TRUE, err |-> Null, collections |-> collections]
             ELSE IF Truthy(Get(collections, filter.value))
             THEN [called |-> TRUE, err |-> Null,
                   collections |-> Obj(<< <<collectionIdLiteral, Get(collections, filter.value)>> >>)]
             ELSE [called |-> TRUE, err |-> [tag |-> "Error"], collections |-> Obj(<<>>)]

\* the objectChange listener of subscribeCollections (certificateManager.ts 123-144):
\* the (err, collections) it calls back with, or that it returns without calling
objectChange(filter, object) ==
    IF ~Truthy(object) \/ ~Truthy(object.native.collections)
    THEN [called |-> FALSE, err |-> Null, collections |-> Undefined]
    ELSE LET collections == object.native.collections
         IN  IF ~Truthy(filter)
             THEN [called |-> TRUE, err |-> Null, collections |-> collections]
             ELSE IF Truthy(Get(collections, filter.value))
             THEN [called |-> TRUE, err |-> Null,
                   collections |-> Obj(<< <<collectionIdLiteral, Get(collections, filter.value)>> >>)]
             ELSE [called |-> TRUE, err |-> [tag |-> "Error"], collections |-> Obj(<<>>)]

\* one pending objectChange event is handled: listener, then the subscription callback
ObjectChange ==
    /\ queue # <<>>
    /\ Truthy(listener)
    /\ queue' = Tail(queue)
    /\ LET event == objectChange(listener.filter, Head(queue))
           after == onCollections(contexts, customCertificatesContext, listener.filter,
                                  event.err, event.collections)
       IN  /\ delivered' = [tag |-> "event", object |-> Head(queue), called |-> event.called,
                            err |-> event.err, collections |-> event.collections]
           /\ IF event.called
              THEN /\ contexts' = after.contexts
                   /\ built' = IF after.rebuilt THEN event.collections ELSE built
                   /\ log' = log \cup after.log
              ELSE UNCHANGED <<contexts, built, log>>
    /\ UNCHANGED <<secure, leCollection, obj, pc, customCertificates, customCertificatesContext,
                   server, error, listener, io, sni, changes, call, earlier,
                   accessVars, writerVars, oauthVars>>

\* a TLS client hello with server name serverName reaches the https server created
\* with the SNICallback
Handshake(serverName) ==
    /\ pc = "returned"
    /\ server.tag = "Server"
    /\ server.options = "SNICallback"
    /\ sni' = [tag |-> "called", serverName |-> serverName, collections |-> built,
               table |-> contexts, seen |-> changes - Len(queue),
               result |-> SNICallback(contexts, customCertificatesContext, serverName)]
    /\ UNCHANGED <<secure, leCollection, obj, pc, customCertificates, customCertificatesContext,
                   contexts, built, server, error, listener, queue, log, io, changes,
                   call, earlier, delivered,
                   accessVars, writerVars, oauthVars>>

----------------------------------------------------------------------------
\* The state after new WebServer(options), for every configuration and store content.

Init ==
    /\ secure \in BOOLEAN
    /\ leCollection \in LeCollectionValues
    /\ obj \in StoreValues
    /\ pc = "constructed"
    /\ customCertificates = Undefined
    /\ customCertificatesContext = Undefined
    /\ contexts = Undefined
    /\ built = Undefined
    /\ server = Undefined
    /\ error = Undefined
    /\ listener = Undefined
    /\ queue = <<>>
    /\ log = {}
    /\ io = {}
    /\ sni = Undefined
    /\ changes = 0
    /\ call = Undefined
    /\ earlier = <<>>
    /\ delivered = Undefined
    /\ accessControl = Undefined
    /\ app = App
    /\ requestListener = Undefined
    /\ returned = Undefined
    /\ response = Undefined
    /\ writers = <<>>
    /\ applied = <<>>
    /\ bruteForce = Obj(<<>>)
    /\ now = 0
    /\ pending = <<>>
    /\ getUserCalls = 0
    /\ clockSteps = 0
    /\ user = Undefined

Next ==
    \/ InitStart
    \/ \E result \in HostCertificateResults : InitCertificates(result)
    \/ \E readFails \in BOOLEAN : InitCollections(readFails)
    \/ \E collectionId \in CollectionIds, collection \in CollectionValues :
           SetCollection(collectionId, collection)
    \/ \E collectionId \in CollectionIds : DelCollection(collectionId)
    \/ \E value \in {Null, StoredObject(Undefined)} : ObjectRemoved(value)
    \/ ObjectChange
    \/ \E serverName \in ServerNames : Handshake(serverName)

Spec == Init /\ [][Next]_vars

----------------------------------------------------------------------------
\* The CertificateManager store methods called one after the other by one client
\* (certificateManager.ts 38-112 and 150-158), on every content of the persisted object.

\* collection ids of the calls: 'c1' and a name plain objects inherit
cConstructor == <<"c", "o", "n", "s", "t", "r", "u", "c", "t", "o", "r">>
ApiIds == {c1, cConstructor}

\* collection without one of its fields
lacking(collection, field) == [k \in DOMAIN collection \ {field} |-> collection[k]]

\* the collections handed to setCollection: two complete ones, and one of them without
\* each mandatory field in turn
ApiValidCollections == {Collection(Pem1, <<hWild>>), Collection(Pem2, <<hSub, hWild>>)}
ApiCollections ==
    ApiValidCollections \cup {lacking(Collection(Pem1, <<hWild>>), field) : field \in mandatory}

\* a collection with the optional chain (certificateManager.ts 17-18)
CollectionWithChain(key, domains, chain) ==
    [tag |-> "collection", from |-> "acme", tsExpires |-> 1, key |-> key, cert |-> key,
     domains |-> domains, chain |-> chain]

\* every persisted object over ApiIds and the complete collections, and one whose
\* collection carries a chain
ApiStoreValues ==
    {Null, StoredObject(Undefined), StoredObject(Obj(<<>>)),
     StoredObject(Obj(<< <<c1, CollectionWithChain(Pem1, <<hWild>>, Pem2)>> >>))}
    \cup {StoredObject(Obj(<< <<i, c>> >>)) : i \in ApiIds, c \in ApiValidCollections}
    \cup {StoredObject(Obj(<< <<i, c>>, <<j, d>> >>)) :
            <<i, j>> \in {p \in ApiIds \X ApiIds : p[1] # p[2]},
            <<c, d>> \in ApiValidCollections \X ApiValidCollections}

\* the record of a completed call: what was called with what, whether it threw, whether
\* it wrote the persisted object, the value it resolved with and what it logged
Call(op, collectionId, collection, readFails, threw, isWrite, value) ==
    [tag |-> "call", op |-> op, id |-> collectionId, collection |-> collection,
     readFails |-> readFails, threw |-> threw, written |-> isWrite, value |-> value,
     repeat |-> FALSE, log |-> {}]

\* what is kept of a call once a later one completed
outcome(c) == [op |-> c.op, id |-> c.id, threw |-> c.threw]

\* the variables of a WebServer, which the store methods do not touch
serverVars == <<secure, leCollection, pc, customCertificates, customCertificatesContext,
                contexts, built, server, error, listener, queue, log, io, sni, changes,
                delivered, accessControl, app, requestListener, returned, response>>

\* c is the call made last once more: same method, same id, same collection
repeats(c) ==
    /\ call.tag = "call"
    /\ call.op = c.op
    /\ call.id = c.id
    /\ call.collection = c.collection
    /\ call.readFails = c.readFails

\* a call completes: it becomes the last call (marked when it repeats the one before),
\* the two before it are remembered
completed(c) ==
    /\ call' = [c EXCEPT !.repeat = repeats(c)]
    /\ earlier' = IF call = Undefined THEN <<>>
                  ELSE IF Len(earlier) = 2 THEN <<earlier[2], outcome(call)>>
                  ELSE Append(earlier, outcome(call))
    /\ UNCHANGED <<serverVars, writerVars, oauthVars>>

\* await certificateManager.setCollection(collectionId, collection)
ApiSetCollection(collectionId, collection) ==
    LET done == setCollection(obj, collectionId, collection)
    IN  /\ obj' = done.object
        /\ completed(Call("setCollection", collectionId, collection, FALSE,
                          done.threw, done.written, Undefined))

\* await certificateManager.delCollection(collectionId)
ApiDelCollection(collectionId, readFails) ==
    LET done == delCollection(obj, readFails, collectionId)
    IN  /\ obj' = done.object
        /\ completed(Call("delCollection", collectionId, Undefined, readFails,
                          done.threw, done.written, Undefined))

\* await certificateManager.getAllCollections()
ApiGetAllCollections(readFails) ==
    LET done == getAllCollections(obj, readFails)
    IN  /\ obj' = obj
        /\ completed([Call("getAllCollections", <<>>, Undefined, readFails, FALSE, FALSE,
                            done.value) EXCEPT !.log = done.log])

\* await certificateManager.getCollection(collectionId)
ApiGetCollection(collectionId, readFails) ==
    LET done == getCollection(obj, readFails, collectionId)
    IN  /\ obj' = obj
        /\ completed([Call("getCollection", collectionId, Undefined, readFails, FALSE, FALSE,
                            done.value) EXCEPT !.log = done.log])

\* await certificateManager.getCollectionIds()
ApiGetCollectionIds(readFails) ==
    LET done == getCollectionIds(obj, readFails)
    IN  /\ obj' = obj
        /\ completed(Call("getCollectionIds", <<>>, Undefined, readFails,
                          done.threw, FALSE, done.value))

\* a certificate manager over any persisted object, no call made yet, no server started
InitStore ==
    /\ obj \in ApiStoreValues
    /\ call = Undefined
    /\ earlier = <<>>
    /\ delivered = Undefined
    /\ secure = FALSE
    /\ leCollection = Undefined
    /\ pc = "constructed"
    /\ customCertificates = Undefined
    /\ customCertificatesContext = Undefined
    /\ contexts = Undefined
    /\ built = Undefined
    /\ server = Undefined
    /\ error = Undefined
    /\ listener = Undefined
    /\ queue = <<>>
    /\ log = {}
    /\ io = {}
    /\ sni = Undefined
    /\ changes = 0
    /\ accessControl = Undefined
    /\ app = App
    /\ requestListener = Undefined
    /\ returned = Undefined
    /\ response = Undefined
    /\ writers = <<>>
    /\ applied = <<>>
    /\ bruteForce = Obj(<<>>)
    /\ now = 0
    /\ pending = <<>>
    /\ getUserCalls = 0
    /\ clockSteps = 0
    /\ user = Undefined

NextStore ==
    \/ \E collectionId \in ApiIds, collection \in ApiCollections :
           ApiSetCollection(collectionId, collection)
    \/ \E collectionId \in ApiIds, readFails \in BOOLEAN : ApiDelCollection(collectionId, readFails)
    \/ \E readFails \in BOOLEAN : ApiGetAllCollections(readFails)
    \/ \E collectionId \in ApiIds, readFails \in BOOLEAN : ApiGetCollection(collectionId, readFails)
    \/ \E readFails \in BOOLEAN : ApiGetCollectionIds(readFails)

SpecStore == InitStore /\ [][NextStore]_vars

----------------------------------------------------------------------------

\* Two clients calling setCollection / delCollection at the same time
\* (certificateManager.ts 75-112): each await is a point where the other call can run.

\* (variant) a store whose setForeignObject merges the given object into the stored one
setForeignObjectMerging(stored, object) ==
    IF Truthy(stored) /\ Truthy(stored.native.collections) /\ Truthy(object.native.collections)
    THEN StoredObject(Obj(stored.native.collections.entries
                          \o SelectSeq(object.native.collections.entries,
                                       LAMBDA e : e[1] \notin KeySet(stored.native.collections))))
    ELSE object

\* the host's setForeignObject: the stored object becomes the given one
setForeignObject(stored, object) == object

\* the calls of a writer: setCollection(id, collection) or delCollection(id)
WriterCall(op, collectionId, collection) ==
    [op |-> op, id |-> collectionId, collection |-> collection, pc |-> "called",
     pending |-> Undefined, threw |-> FALSE]
WriterCalls ==
    {WriterCall("setCollection", i, c) : i \in CollectionIds, c \in ApiValidCollections}
    \cup {WriterCall("delCollection", i, Undefined) : i \in CollectionIds}

\* every persisted object over CollectionIds and the complete collections, and one
\* whose collection carries a chain
WriterStoreValues ==
    {Null, StoredObject(Undefined), StoredObject(Obj(<<>>)),
     StoredObject(Obj(<< <<c1, CollectionWithChain(Pem1, <<hWild>>, Pem2)>> >>))}
    \cup {StoredObject(Obj(<< <<i, c>> >>)) : i \in CollectionIds, c \in ApiValidCollections}
    \cup {StoredObject(Obj(<< <<c1, c>>, <<c2, d>> >>)) : c \in ApiValidCollections,
                                                         d \in ApiValidCollections}

\* a write of writer w as the store applied it
Applied(w, object) ==
    [writer |-> w, op |-> writers[w].op, id |-> writers[w].id,
     collection |-> writers[w].collection, object |-> object]

\* setCollection of writer w (75-88): the check, then the one await on
\* extendForeignObjectAsync, whose merge the store applies in one piece
WriterSetCollection(w) ==
    /\ writers[w].pc = "called"
    /\ writers[w].op = "setCollection"
    /\ LET done == setCollection(obj, writers[w].id, writers[w].collection)
       IN  /\ obj' = done.object
           /\ writers' = [writers EXCEPT ![w].pc = "done", ![w].threw = done.threw]
           /\ applied' = IF done.written THEN Append(applied, Applied(w, done.object))
                         ELSE applied
    /\ UNCHANGED <<serverVars, call, earlier, oauthVars>>

\* delCollection of writer w up to its second await (96-104): the object is read; when
\* it has the id, the id is deleted from the copy read and setForeignObjectAsync is
\* called with that copy; else the call is over
WriterDelCollectionRead(w, readFails) ==
    /\ writers[w].pc = "called"
    /\ writers[w].op = "delCollection"
    /\ LET done == delCollection(obj, readFails, writers[w].id)
       IN  writers' = [writers EXCEPT ![w].pc = IF done.written THEN "writing" ELSE "done",
                                      ![w].pending = IF done.written THEN done.object
                                                     ELSE Undefined,
                                      ![w].threw = done.threw]
    /\ UNCHANGED <<obj, applied, serverVars, call, earlier, oauthVars>>

\* the store applies the setForeignObject of writer w's delCollection (104)
WriterDelCollectionWrite(w) ==
    /\ writers[w].pc = "writing"
    /\ obj' = setForeignObject(obj, writers[w].pending)
    /\ writers' = [writers EXCEPT ![w].pc = "done"]
    /\ applied' = Append(applied, Applied(w, obj'))
    /\ UNCHANGED <<serverVars, call, earlier, oauthVars>>

InitWriters ==
    /\ obj \in WriterStoreValues
    /\ writers \in [{1, 2} -> WriterCalls]
    /\ applied = <<>>
    /\ call = Undefined
    /\ earlier = <<>>
    /\ delivered = Undefined
    /\ secure = FALSE
    /\ leCollection = Undefined
    /\ pc = "constructed"
    /\ customCertificates = Undefined
    /\ customCertificatesContext = Undefined
    /\ contexts = Undefined
    /\ built = Undefined
    /\ server = Undefined
    /\ error = Undefined
    /\ listener = Undefined
    /\ queue = <<>>
    /\ log = {}
    /\ io = {}
    /\ sni = Undefined
    /\ changes = 0
    /\ accessControl = Undefined
    /\ app = App
    /\ requestListener = Undefined
    /\ returned = Undefined
    /\ response = Undefined
    /\ bruteForce = Obj(<<>>)
    /\ now = 0
    /\ pending = <<>>
    /\ getUserCalls = 0
    /\ clockSteps = 0
    /\ user = Undefined

NextWriters ==
    \/ \E w \in {1, 2} : WriterSetCollection(w)
    \/ \E w \in {1, 2}, readFails \in BOOLEAN : WriterDelCollectionRead(w, readFails)
    \/ \E w \in {1, 2} : WriterDelCollectionWrite(w)

SpecWriters == InitWriters /\ [][NextWriters]_vars

----------------------------------------------------------------------------

\* WebServer.init with access-control options, and requests to the server it created
\* (webServer.ts 62-189 and 281-283), for every configuration.

\* the store is empty or holds one collection
AccessStoreValues == {Null, StoredObject(Obj(<< <<c1, Collection(Pem1, <<hWild>>)>> >>))}

\* an http(s) request reaches the server: its request listener runs
Request ==
    /\ pc = "returned"
    /\ server.tag = "Server"
    /\ response' = [tag |-> "handled", headers |-> handle(requestListener, accessControl).headers,
                    ran |-> handle(requestListener, accessControl).ran]
    /\ UNCHANGED <<secure, leCollection, obj, pc, customCertificates, customCertificatesContext,
                   contexts, built, server, error, listener, queue, log, io, sni, changes,
                   call, earlier, delivered, accessControl, app, requestListener, returned,
                   writerVars, oauthVars>>

InitAccess ==
    /\ secure \in BOOLEAN
    /\ leCollection \in LeCollectionValues
    /\ obj \in AccessStoreValues
    /\ accessControl \in AccessControlValues
    /\ pc = "constructed"
    /\ customCertificates = Undefined
    /\ customCertificatesContext = Undefined
    /\ contexts = Undefined
    /\ built = Undefined
    /\ server = Undefined
    /\ error = Undefined
    /\ listener = Undefined
    /\ queue = <<>>
    /\ log = {}
    /\ io = {}
    /\ sni = Undefined
    /\ changes = 0
    /\ call = Undefined
    /\ earlier = <<>>
    /\ delivered = Undefined
    /\ app = App
    /\ requestListener = Undefined
    /\ returned = Undefined
    /\ response = Undefined
    /\ writers = <<>>
    /\ applied = <<>>
    /\ bruteForce = Obj(<<>>)
    /\ now = 0
    /\ pending = <<>>
    /\ getUserCalls = 0
    /\ clockSteps = 0
    /\ user = Undefined

NextAccess ==
    \/ InitStart
    \/ \E result \in HostCertificateResults : InitCertificates(result)
    \/ \E readFails \in BOOLEAN : InitCollections(readFails)
    \/ Request

SpecAccess == InitAccess /\ [][NextAccess]_vars

----------------------------------------------------------------------------

\* OAuth2Model.getUser and its failure records (part_004 37 and 232-288): calls for
\* several usernames, the password check of a call answered while other calls run, the
\* clock advancing in between.

\* getUser calls and clock advances of one run
MaxCalls == 2
MaxClockSteps == 1

\* numbers as the failure count needs them: a number, or NaN
Num(n) == [tag |-> "number", value |-> n]
NaN == [tag |-> "NaN"]

\* a > n, and a++ (undefined++ and NaN++ give NaN)
greater(a, n) == a.tag = "number" /\ a.value > n
increment(a) == IF a.tag = "number" THEN Num(a.value + 1) ELSE NaN

\* usernames: two ordinary ones and a name plain objects inherit
uA == <<"a">>
uB == <<"b">>
Usernames == {uA, uB, cConstructor}

\* a failure record { errors, time }
Failures(errors, time) == [tag |-> "object", errors |-> errors, time |-> time]

\* what bruteForce['constructor'] is while the record has no such key: the function
\* Object, which has neither errors nor time
ObjectFunction == [tag |-> "function", errors |-> Undefined, time |-> Undefined]

\* this.bruteForce[username]
recordOf(records, username) ==
    IF username \in KeySet(records) THEN Get(records, username)
    ELSE IF username \in ObjectPrototypeKeys THEN ObjectFunction
    ELSE Undefined

\* failure counts on either side of every threshold of getUser, and clock readings on
\* either side of every window, for records whose last failure was at time 0
ErrorCounts == {1, 4, 5, 6, 7, 9, 10, 14, 15}
NowValues == {0, 59999, 60000, 179999, 180000, 599999, 600000, 3599999, 3600000}
ClockSteps == {1, 60000}

\* Math.ceil(ms / 60000) for ms > 0
ceilMinutes(ms) == (ms + 59999) \div 60000

\* lines 234-259: the minutes getUser makes the caller wait, 0 when it goes on to the
\* password check
minutes(records, username, time) ==
    LET record == recordOf(records, username)
    IN  IF ~(Truthy(record) /\ greater(record.errors, 4)) THEN 0
        ELSE LET elapsed == time - record.time.value
             IN  IF record.errors.value < 7
                 THEN IF elapsed < 60000 THEN 1 ELSE 0
                 ELSE IF record.errors.value < 10
                 THEN IF elapsed < 180000 THEN ceilMinutes(180000 - elapsed) ELSE 0
                 ELSE IF record.errors.value < 15
                 THEN IF elapsed < 600000 THEN ceilMinutes(600000 - elapsed) ELSE 0
                 ELSE IF elapsed < 3600000 THEN ceilMinutes(3600000 - elapsed) ELSE 0

\* lines 273-281: the record after a failed password check
failed(records, username, time) ==
    LET record == IF Truthy(recordOf(records, username)) THEN recordOf(records, username)
                  ELSE Failures(Num(0), Undefined)
    IN  Put(records, username,
            [record EXCEPT !.time = Num(time), !.errors = increment(record.errors)])

\* lines 282-284: the record is deleted after a successful check
succeeded(records, username) ==
    IF Truthy(recordOf(records, username))
    THEN Obj(without(records.entries, username))
    ELSE records

\* what a resolved getUser call did
Resolved(username, value, checked, success) ==
    [tag |-> "resolved", username |-> username, value |-> value, checked |-> checked,
     success |-> success]

\* getUser(username, password) up to its await (233-271): null when the caller has to
\* wait, else adapter.checkPassword is called
GetUser(username) ==
    /\ getUserCalls < MaxCalls
    /\ getUserCalls' = getUserCalls + 1
    /\ IF minutes(bruteForce, username, now) # 0
       THEN /\ user' = Resolved(username, Null, FALSE, FALSE)
            /\ pending' = pending
       ELSE /\ pending' = Append(pending, username)
            /\ user' = user
    /\ UNCHANGED <<bruteForce, now, clockSteps, obj, serverVars, call, earlier, writerVars>>

\* adapter.checkPassword answers the i-th waiting call (272-287)
CheckPassword(i, success) ==
    /\ i \in 1..Len(pending)
    /\ pending' = SubSeq(pending, 1, i - 1) \o SubSeq(pending, i + 1, Len(pending))
    /\ IF success
       THEN /\ bruteForce' = succeeded(bruteForce, pending[i])
            /\ user' = Resolved(pending[i], [tag |-> "User"], TRUE, TRUE)
       ELSE /\ bruteForce' = failed(bruteForce, pending[i], now)
            /\ user' = Resolved(pending[i], Null, TRUE, FALSE)
    /\ UNCHANGED <<now, getUserCalls, clockSteps, obj, serverVars, call, earlier, writerVars>>

\* time passes
ClockAdvance(ms) ==
    /\ clockSteps < MaxClockSteps
    /\ clockSteps' = clockSteps + 1
    /\ now' = now + ms
    /\ UNCHANGED <<bruteForce, pending, getUserCalls, user, obj, serverVars, call, earlier,
                   writerVars>>

\* the failure records an OAuth2 model can hold: for uA none or any count, for uB none
\* or a count that blocks, each with its last failure at time 0; the clock at or after it
RecordValues ==
    {Obj(<<>>), Obj(<< <<uB, Failures(Num(5), Num(0))>> >>)}
    \cup {Obj(<< <<uA, Failures(Num(n), Num(0))>> >>) : n \in ErrorCounts}
    \cup {Obj(<< <<uA, Failures(Num(n), Num(0))>>, <<uB, Failures(Num(5), Num(0))>> >>) :
            n \in ErrorCounts}

InitOAuth ==
    /\ bruteForce \in RecordValues
    /\ now \in NowValues
    /\ pending = <<>>
    /\ getUserCalls = 0
    /\ clockSteps = 0
    /\ user = Undefined
    /\ obj = Null
    /\ call = Undefined
    /\ earlier = <<>>
    /\ delivered = Undefined
    /\ secure = FALSE
    /\ leCollection = Undefined
    /\ pc = "constructed"
    /\ customCertificates = Undefined
    /\ customCertificatesContext = Undefined
    /\ contexts = Undefined
    /\ built = Undefined
    /\ server = Undefined
    /\ error = Undefined
    /\ listener = Undefined
    /\ queue = <<>>
    /\ log = {}
    /\ io = {}
    /\ sni = Undefined
    /\ changes = 0
    /\ accessControl = Undefined
    /\ app = App
    /\ requestListener = Undefined
    /\ returned = Undefined
    /\ response = Undefined
    /\ writers = <<>>
    /\ applied = <<>>

NextOAuth ==
    \/ \E username \in Usernames : GetUser(username)
    \/ \E i \in 1..MaxCalls, success \in BOOLEAN : CheckPassword(i, success)
    \/ \E ms \in ClockSteps : ClockAdvance(ms)

SpecOAuth == InitOAuth /\ [][NextOAuth]_vars

----------------------------------------------------------------------------

\* Vocabulary of the properties.

Range(seq) == {seq[i] : i \in 1..Len(seq)}

\* the three server modes, read off the server init() created
ServerMode ==
    IF server.tag # "Server" THEN "none"
    ELSE IF server.type = "http" THEN "PlainHttp"
    ELSE IF server.options = "customCertificates" THEN "FallbackOnlyHttps"
    ELSE "CollectionsHttps"

\* the table a handshake resolved against: the build of the mapping in use at that time
tableOf(collections) == buildSecureContexts(collections).value

\* the positions of the collections of a mapping that list domain d
listing(collections, d) ==
    {i \in 1..Len(collections.entries) : d \in Range(collections.entries[i][2].domains)}

\* the context compiled for the collection at position i of a mapping
contextOf(collections, i) ==
    SecureContext(collections.entries[i][2].key, collections.entries[i][1])

\* every domain listed by some collection of a mapping
domainsOf(collections) ==
    UNION {Range(collections.entries[i][2].domains) : i \in 1..Len(collections.entries)}

\* h with its left-most label replaced by '*', for h with a dot in it
firstLabelStarred(h) ==
    LET dot == CHOOSE k \in 1..Len(h) : h[k] = "." /\ \A j \in 1..(k - 1) : h[j] # "."
    IN  <<"*">> \o SubSeq(h, dot, Len(h))

hasDot(h) == \E k \in 1..Len(h) : h[k] = "."

\* the configured collection selector
selectorFalse == leCollection.tag = "boolean" /\ leCollection.value = FALSE
selectorTrueOrUnset ==
    \/ leCollection.tag = "boolean" /\ leCollection.value = TRUE
    \/ leCollection.tag = "undefined"
selectorSpecific == leCollection.tag = "string" /\ Len(leCollection.value) > 0

\* a handshake was resolved in CollectionsHttps mode
resolved == sni.tag = "called"

\* fallback certificate material was loaded at bootstrap
fallbackLoaded == Truthy(customCertificates)

\* the store content init() read: nothing was written since
storeAsRead == changes = 0

----------------------------------------------------------------------------
\* C1 (as stated): for every table built from a collection mapping and every domain
\* pattern d listed by a collection C of that mapping, resolving SNI d returns C's
\* context (the one compiled from C's key and certificate), with or without a
\* fallback context.
C1_ListedDomainResolvesToItsCollection ==
    resolved =>
        \A i \in 1..Len(sni.collections.entries) :
            sni.serverName \in Range(sni.collections.entries[i][2].domains)
                => /\ sni.result.context.tag = "SecureContext"
                   /\ sni.result.context.key = sni.collections.entries[i][2].key

\* C1 (amended): resolving SNI d, for d listed in the mapping the table was built from,
\* returns the context of the last collection in enumeration order that lists d, with
\* or without a fallback context.
C1_ListedDomainResolvesToLastListing ==
    resolved =>
        \A i \in listing(sni.collections, sni.serverName) :
            (\A j \in listing(sni.collections, sni.serverName) : j <= i)
                => /\ sni.result.context = contextOf(sni.collections, i)
                   /\ sni.result.branch = "exact"

\* C1 witness: a domain listed by two collections was resolved, no fallback material
C1_Witness ==
    /\ resolved
    /\ Cardinality(listing(sni.collections, sni.serverName)) = 2
    /\ ~fallbackLoaded
    /\ sni.result.context = contextOf(sni.collections, 2)

\* C2: a hostname with at least two labels and no exact entry is looked up only under
\* its left-most label replaced by '*': 's.e.c' resolves to the context of '*.e.c',
\* 'a.b.e.c' is not resolved through '*.e.c' and falls through to the fallback or
\* last-resort step.
C2_OneLevelWildcardOnly ==
    (resolved /\ hasDot(sni.serverName)
        /\ sni.serverName \notin KeySet(tableOf(sni.collections))) =>
        LET table == tableOf(sni.collections)
            star == firstLabelStarred(sni.serverName)
        IN  /\ star \in KeySet(table)
                => /\ sni.result.branch = "wildcard"
                   /\ sni.result.context = Get(table, star)
            /\ star \notin KeySet(table)
                => sni.result.branch \in {"fallback", "last resort", "none"}
            /\ (sni.serverName = hSub /\ hWild \in KeySet(table))
                => sni.result.context = Get(table, hWild)
            /\ sni.serverName = hDeep
                => sni.result.branch \in {"fallback", "last resort", "none"}

\* C2 witness: 'a.b.e.c' was resolved against a table that holds '*.e.c'
C2_Witness ==
    /\ resolved
    /\ sni.serverName = hDeep
    /\ hWild \in KeySet(tableOf(sni.collections))
    /\ sni.result.branch = "fallback"

\* C3: when neither the hostname nor its one-level wildcard is in the table and a
\* fallback context exists, resolution returns the fallback context, never a
\* last-resort entry.
C3_FallbackWhenNoMatch ==
    (resolved /\ fallbackLoaded
        /\ sni.serverName \notin KeySet(tableOf(sni.collections))
        /\ (hasDot(sni.serverName)
                => firstLabelStarred(sni.serverName) \notin KeySet(tableOf(sni.collections))))
        => /\ sni.result.context = customCertificatesContext
           /\ sni.result.context = SecureContext(customCertificates.key, custom)

\* C4: in CollectionsHttps mode with an empty table and no fallback material loaded at
\* bootstrap, resolving any hostname yields no context and logs an error.
C4_NoCertificateFailsHandshake ==
    (resolved /\ ~fallbackLoaded /\ KeySet(tableOf(sni.collections)) = {})
        => /\ ~Truthy(sni.result.context)
           /\ \E entry \in sni.result.log : entry.level = "error"

\* C5: in CollectionsHttps mode with no match, no fallback material loaded at bootstrap
\* and a non-empty table, resolution returns the first-enumerated entry's context and
\* logs a warning.
C5_LastResortIsFirstEntry ==
    (resolved /\ ~fallbackLoaded
        /\ sni.serverName \notin ObjectPrototypeKeys
        /\ KeySet(tableOf(sni.collections)) # {}
        /\ sni.serverName \notin KeySet(tableOf(sni.collections))
        /\ (hasDot(sni.serverName)
                => firstLabelStarred(sni.serverName) \notin KeySet(tableOf(sni.collections))))
        => /\ sni.result.context = tableOf(sni.collections).entries[1][2]
           /\ \E entry \in sni.result.log : entry.level = "warn"


\* C6: with secure = false init() goes directly to PlainHttp: an http server, no store
\* read, no fallback certificate load, no subscription, whatever leCollection is.
C6_InsecureIsPlainHttp ==
    ~secure =>
        /\ pc \in {"constructed", "returned"}
        /\ io = {}
        /\ listener = Undefined
        /\ customCertificates = Undefined
        /\ pc = "returned" => (ServerMode = "PlainHttp" /\ server = HttpServer)

\* C6 witness: init() returned the http server although a collection id is configured
C6_Witness ==
    /\ ~secure
    /\ pc = "returned"
    /\ selectorSpecific
    /\ ServerMode = "PlainHttp"

\* C7: with secure = true and leCollection = false init() ends in FallbackOnlyHttps if
\* fallback material was loaded and in PlainHttp otherwise, and never reads the
\* collection store nor opens a subscription.
C7_NoCollectionsFallbackOrPlain ==
    (secure /\ selectorFalse) =>
        /\ "getForeignObjectAsync" \notin io
        /\ "subscribeForeignObjects" \notin io
        /\ listener = Undefined
        /\ pc # "awaitCollections"
        /\ pc = "returned" =>
              ServerMode = IF fallbackLoaded THEN "FallbackOnlyHttps" ELSE "PlainHttp"

\* C7 witness: init() returned the https server that uses the fallback certificates
C7_Witness ==
    /\ secure
    /\ selectorFalse
    /\ pc = "returned"
    /\ fallbackLoaded
    /\ ServerMode = "FallbackOnlyHttps"

\* what getAllCollections gave init(): null after a failed read or without a
\* collections field, else the stored mapping
readNothing ==
    \/ Log("error", "No certificates found") \in log
    \/ ~Truthy(obj)
    \/ ~Truthy(obj.native.collections)

\* C8: with secure = true and leCollection true or unset init() fetches all collections;
\* on null or an empty mapping it degrades as with leCollection = false, otherwise it
\* ends in CollectionsHttps with a table built from all collections.
C8_AllCollectionsOrDegrade ==
    (secure /\ selectorTrueOrUnset) =>
        /\ pc \in {"awaitCollections", "returned"} => "getForeignObjectAsync" \in io
        /\ (pc = "returned" /\ storeAsRead) =>
              IF readNothing \/ obj.native.collections.entries = <<>>
              THEN /\ ServerMode = IF fallbackLoaded THEN "FallbackOnlyHttps" ELSE "PlainHttp"
                   /\ listener = Undefined
                   /\ "subscribeForeignObjects" \notin io
              ELSE /\ ServerMode = "CollectionsHttps"
                   /\ built = obj.native.collections
                   /\ KeySet(contexts) = domainsOf(obj.native.collections)
                   /\ \A d \in KeySet(contexts) :
                         \E i \in listing(built, d) : Get(contexts, d) = contextOf(built, i)

\* C8 witness: an empty stored mapping and no fallback material ended in plain http
C8_Witness ==
    /\ secure
    /\ selectorTrueOrUnset
    /\ pc = "returned"
    /\ storeAsRead
    /\ ~readNothing
    /\ obj.native.collections.entries = <<>>
    /\ ServerMode = "PlainHttp"

\* C9: with secure = true and leCollection a specific id present in the store init()
\* fetches exactly that collection, builds a table of only that collection's domains
\* and ends in CollectionsHttps; it never degrades to PlainHttp or FallbackOnlyHttps,
\* with or without fallback material.
C9_SpecificCollectionOnly ==
    (secure /\ selectorSpecific) =>
        /\ pc \in {"awaitCollections", "returned"} => "getForeignObjectAsync" \in io
        /\ ServerMode \in {"none", "CollectionsHttps"}
        /\ pc = "returned" => ServerMode = "CollectionsHttps"
        /\ (pc = "returned" /\ storeAsRead) =>
              /\ ~readNothing
              /\ leCollection.value \in KeySet(obj.native.collections)
              /\ built = Obj(<< <<leCollection.value,
                                  Get(obj.native.collections, leCollection.value)>> >>)
              /\ KeySet(contexts)
                    = Range(Get(obj.native.collections, leCollection.value).domains)
              /\ \A d \in KeySet(contexts) :
                    Get(contexts, d)
                        = SecureContext(Get(obj.native.collections, leCollection.value).key,
                                        leCollection.value)

\* C9 witness: the store holds two collections, the table only the selected one's
\* domains, and no fallback material was loaded
C9_Witness ==
    /\ secure
    /\ selectorSpecific
    /\ pc = "returned"
    /\ storeAsRead
    /\ ~fallbackLoaded
    /\ Len(obj.native.collections.entries) = 2
    /\ KeySet(contexts) # domainsOf(obj.native.collections)
    /\ ServerMode = "CollectionsHttps"

\* C10: with secure = true and leCollection a specific id that is not in the store
\* init() fails with a NotFoundError that names the requested id, and no server is
\* created.
C10_MissingCollectionIsNotFound ==
    (secure /\ selectorSpecific /\ "getForeignObjectAsync" \in io
        /\ pc \in {"returned", "threw"} /\ storeAsRead
        /\ fallbackLoaded /\ customCertificates.key = PemText
        /\ (readNothing \/ leCollection.value \notin KeySet(obj.native.collections)))
        => /\ pc = "threw"
           /\ server = Undefined
           /\ error.name = "NotFoundError"
           /\ leCollection.value \in error.mentions

\* C11: every init() with secure = true that ends in PlainHttp has logged an entry at
\* warning or error level by the time the http server is returned.
C11_PlainHttpIsLogged ==
    (secure /\ pc = "returned" /\ ServerMode = "PlainHttp") =>
        \E entry \in log : entry.level \in {"warn", "error"}

\* C11 witness: leCollection = false and no fallback certificates from the host: the
\* http server was returned and the only entry logged is the error about it
C11_Witness ==
    /\ secure
    /\ selectorFalse
    /\ pc = "returned"
    /\ ServerMode = "PlainHttp"
    /\ log = {Log("error", "Could not find self-signed certificate - falling back to insecure http")}

\* the configured collection id was not there when init() read the store
selectedIdMissing ==
    /\ selectorSpecific
    /\ \/ readNothing
       \/ leCollection.value \notin KeySet(obj.native.collections)

\* C12: init() rejects only because a specifically requested collection id could not be
\* found or because creating the server failed; a rejected fallback-certificate call,
\* absent or unusable fallback material and a failed store read are logged and init()
\* goes on along the fallback chain.
C12_InitThrowsOnlyForMissingIdOrListener ==
    (pc = "threw" /\ changes = 0) =>
        \/ error.message = "https.createServer"
        \/ error.message = "buildSecureContexts" /\ error.name = "TypeError" /\ selectedIdMissing

\* table is what one build of the mapping collections yields: its keys are the domains
\* the collections list, each bound to the context of the last collection listing it
isBuildOf(table, collections) ==
    /\ Truthy(table)
    /\ Truthy(collections)
    /\ KeySet(table) = domainsOf(collections)
    /\ \A d \in domainsOf(collections) :
          \E i \in listing(collections, d) :
              /\ \A j \in listing(collections, d) : j <= i
              /\ Get(table, d) = contextOf(collections, i)

\* C13: in CollectionsHttps mode the table in use, and so the table every handshake
\* reads, is the complete build of exactly one delivered mapping (the one init() read or
\* the one of a change notification), under every interleaving of change notifications
\* and handshakes; it never holds entries of two mappings or part of a build.
C13_HandshakeReadsOneBuild ==
    /\ (pc = "returned" /\ ServerMode = "CollectionsHttps") => isBuildOf(contexts, built)
    /\ resolved => isBuildOf(sni.table, sni.collections)

\* C13 witness: a handshake resolved against the table rebuilt from a change
\* notification that left two collections in the store
C13_Witness ==
    /\ resolved
    /\ selectorTrueOrUnset
    /\ sni.seen = 1
    /\ Truthy(obj)
    /\ Truthy(obj.native.collections)
    /\ sni.collections = obj.native.collections
    /\ Len(sni.collections.entries) = 2
    /\ sni.table = contexts

\* the last handshake got the context of the only collection of the table it read
capturedOnlyCollection ==
    /\ resolved
    /\ Len(sni.collections.entries) = 1
    /\ sni.result.context = contextOf(sni.collections, 1)

\* the persisted object still has its collections mapping, and the mapping is empty:
\* the state delCollection leaves when it removes the only collection
lastCollectionDeleted ==
    /\ Truthy(obj)
    /\ Truthy(obj.native.collections)
    /\ Len(obj.native.collections.entries) = 0

\* a notification is handled while the last handshake holds the context of the only
\* collection
notificationHandledInFlight ==
    /\ capturedOnlyCollection
    /\ queue # <<>>
    /\ queue' = Tail(queue)

\* the step is the next handshake for the same name, after delCollection removed the
\* only collection and every notification was handled
nextHandshakeAfterRemoval ==
    /\ capturedOnlyCollection
    /\ sni.seen < changes
    /\ queue = <<>>
    /\ lastCollectionDeleted
    /\ sni' # sni
    /\ sni'.serverName = sni.serverName
    /\ sni'.seen = changes

\* the handshake of the step read the empty table and got the fallback or last-resort
\* result, not the context the earlier handshake captured
resolvedWithoutRemoved ==
    /\ sni'.table = Obj(<<>>)
    /\ sni'.result.branch \in {"fallback", "last resort"}
    /\ sni'.result.context # sni.result.context

storedDomains ==
    IF Truthy(obj) /\ Truthy(obj.native.collections)
    THEN UNION {Range(obj.native.collections.entries[i][2].domains) :
                    i \in {k \in 1..Len(obj.native.collections.entries) :
                              obj.native.collections.entries[k][2].key # BadText}}
    ELSE {}

\* C15: in CollectionsHttps mode with leCollection true or unset every change
\* notification leads to a rebuild, so once the last notification was handled the keys
\* of the table are exactly the domains of the collections in the latest store state:
\* no domain of a removed collection is left and every domain of an added one is there.
C15_TableFollowsStore ==
    (/\ pc = "returned"
     /\ ServerMode = "CollectionsHttps"
     /\ selectorTrueOrUnset
     /\ changes >= 1
     /\ queue = <<>>)
        => KeySet(contexts) = storedDomains

\* every collection of the persisted object has key and certificate PEM text
storeCompiles ==
    /\ Truthy(obj)
    /\ Truthy(obj.native.collections)
    /\ \A i \in 1..Len(obj.native.collections.entries) :
          obj.native.collections.entries[i][2].key # BadText

\* C16: for a server started with secure = true and leCollection true or unset, a
\* collection that lists domain d and was stored after bootstrap is served without a new
\* init(): once the pending notifications are handled the running server resolves d to
\* that collection's context, whatever the store held at bootstrap (an empty store
\* included).
C16_AddedCollectionIsServed ==
    (/\ secure
     /\ selectorTrueOrUnset
     /\ pc = "returned"
     /\ changes >= 1
     /\ queue = <<>>
     /\ storeCompiles)
        => \A d \in domainsOf(obj.native.collections) :
              /\ ServerMode = "CollectionsHttps"
              /\ isBuildOf(contexts, obj.native.collections)
              /\ SNICallback(contexts, customCertificatesContext, d).context = Get(contexts, d)

----------------------------------------------------------------------------
\* Properties of the store methods, checked under SpecStore.

\* the collections held by a persisted object, none when the object or the field is
\* missing
collectionsOf(object) ==
    IF Truthy(object) /\ Truthy(object.native.collections)
    THEN object.native.collections
    ELSE Obj(<<>>)

\* the step is a call of op
calling(op) == call'.tag = "call" /\ call'.op = op

\* C17: setCollection(id, collection) with a collection that lacks any of from,
\* tsExpires, key, cert, domains throws the validation error and writes nothing: the
\* persisted object is the same after the call.
C17_InvalidSetThrowsAndWritesNothing ==
    [][(calling("setCollection") /\ ~(mandatory \subseteq DOMAIN call'.collection))
          => /\ call'.threw
             /\ ~call'.written
             /\ obj' = obj]_vars

\* C17 witness: a collection without domains was refused while the store held two
\* collections
C17_Witness ==
    /\ call.tag = "call"
    /\ call.op = "setCollection"
    /\ "domains" \notin DOMAIN call.collection
    /\ call.threw
    /\ Len(collectionsOf(obj).entries) = 2

\* C18: a setCollection(id, collection) that succeeds leaves the collection stored
\* under every other id as it was and removes no other id from the persisted object.
C18_SetKeepsOtherIds ==
    [][(calling("setCollection") /\ ~call'.threw)
          => \A other \in KeySet(collectionsOf(obj)) \ {call'.id} :
                /\ other \in KeySet(collectionsOf(obj'))
                /\ Get(collectionsOf(obj'), other) = Get(collectionsOf(obj), other)]_vars

\* C18 witness: 'c1' was stored next to the collection already held under another id
C18_Witness ==
    /\ call.tag = "call"
    /\ call.op = "setCollection"
    /\ call.id = c1
    /\ ~call.threw
    /\ call.written
    /\ KeySet(collectionsOf(obj)) = {c1, cConstructor}
    /\ Get(collectionsOf(obj), c1) = call.collection
    /\ Get(collectionsOf(obj), cConstructor) # call.collection

\* C19: delCollection(id) for an id that is not in the persisted object (or when the
\* object or its collections field is missing) writes nothing and completes without
\* error; so a second delCollection(id) directly after a first leaves the persisted
\* object as the first left it.
C19_DeleteOfAbsentIdIsNoOp ==
    [][/\ (/\ calling("delCollection")
           /\ ~call'.readFails
           /\ call'.id \notin KeySet(collectionsOf(obj)))
          => /\ ~call'.threw
             /\ ~call'.written
             /\ obj' = obj
       /\ (/\ calling("delCollection")
           /\ ~call'.readFails
           /\ call.tag = "call"
           /\ call.op = "delCollection"
           /\ call.id = call'.id
           /\ ~call.threw)
          => /\ ~call'.threw
             /\ obj' = obj]_vars

\* C20: after setCollection(id, X) and then delCollection(id), with no other write in
\* between, getCollectionIds() does not contain id and getCollection(id) returns no
\* collection (null or undefined), whatever the store held before.
C20_SetThenDeleteLeavesNoTrace ==
    (/\ call.tag = "call"
     /\ ~call.readFails
     /\ Len(earlier) = 2
     /\ earlier[1].op = "setCollection"
     /\ ~earlier[1].threw
     /\ earlier[2].op = "delCollection"
     /\ ~earlier[2].threw
     /\ earlier[2].id = earlier[1].id)
        => /\ (call.op = "getCollectionIds" /\ ~call.threw)
                => earlier[1].id \notin Range(call.value)
           /\ (call.op = "getCollection" /\ call.id = earlier[1].id)
                => ~Truthy(call.value)

\* C21: setCollection(id, X) applied a second time directly after the first leaves the
\* persisted object as the first left it, and the table built from the object has the
\* same domain keys after the first and after the second application.
C21_SetTwiceIsSetOnce ==
    [][(/\ calling("setCollection")
        /\ ~call'.threw
        /\ call.tag = "call"
        /\ call.op = "setCollection"
        /\ ~call.threw
        /\ call.id = call'.id
        /\ call.collection = call'.collection)
          => /\ obj' = obj
             /\ KeySet(tableOf(collectionsOf(obj'))) = KeySet(tableOf(collectionsOf(obj)))]_vars

\* C21 witness: a collection was stored a second time under an id that comes first of
\* two in the persisted object
C21_Witness ==
    /\ call.tag = "call"
    /\ call.op = "setCollection"
    /\ call.repeat
    /\ ~call.threw
    /\ Len(collectionsOf(obj).entries) = 2
    /\ collectionsOf(obj).entries[1] = <<call.id, call.collection>>
    /\ KeySet(tableOf(collectionsOf(obj))) = {hSub, hWild}

\* C22: getAllCollections() and getCollection(id) never throw. Without a persisted
\* object, without its collections field, or when the store read fails they return
\* null, the failed read being logged as an error; and getCollection(id) for an id that
\* is not in an existing record reports absence (null or undefined).
C22_ReadsNeverThrow ==
    (call.tag = "call" /\ call.op \in {"getAllCollections", "getCollection"}) =>
        /\ ~call.threw
        /\ (call.readFails \/ ~Truthy(obj) \/ ~Truthy(obj.native.collections))
              => call.value.tag = "null"
        /\ call.readFails => \E entry \in call.log : entry.level = "error"
        /\ (call.op = "getCollection" /\ call.id \notin KeySet(collectionsOf(obj)))
              => ~Truthy(call.value)

----------------------------------------------------------------------------
\* Properties of the change subscription, checked under Spec.

\* the listener handled an event
notified == delivered.tag = "event"

\* the mapping of the record the last event carried, none without record or field
changedCollections == collectionsOf(delivered.object)

\* the subscription was opened with a collection id
filtered == Truthy(listener) /\ Truthy(listener.filter)

\* C23: a subscription without filter id is called back with the full mapping of the
\* changed record; a subscription whose filter id is in the record after the change is
\* called back without error and with a mapping of exactly one entry, whose key is the
\* filter id and whose value is that id's collection.
C23_DeliveredMapping ==
    (notified /\ Truthy(delivered.object) /\ Truthy(delivered.object.native.collections)) =>
        /\ ~filtered
              => /\ delivered.called
                 /\ ~Truthy(delivered.err)
                 /\ delivered.collections = changedCollections
        /\ (filtered /\ listener.filter.value \in KeySet(changedCollections))
              => /\ delivered.called
                 /\ ~Truthy(delivered.err)
                 /\ Keys(delivered.collections) = <<listener.filter.value>>
                 /\ Get(delivered.collections, listener.filter.value)
                        = Get(changedCollections, listener.filter.value)

\* C24: for every change of the persisted record the callback of a subscription
\* registered before it is invoked: no event is handled without calling back, also not
\* one after which the record has no collections field.
C24_NoChangeDropped ==
    notified => delivered.called

\* C25: for a subscription with a collection id, every change after which that id is
\* not among the record's collections calls back with an error, never with a mapping
\* and no error.
C25_AbsentFilterIdIsAnError ==
    (notified /\ filtered /\ listener.filter.value \notin KeySet(changedCollections)) =>
        /\ delivered.called
        /\ Truthy(delivered.err)

----------------------------------------------------------------------------
\* Properties of the table build and of the bootstrap, checked under Spec.

\* C26: when two collections of one mapping list the same domain, the table built from
\* the mapping binds that domain to the context of the one that comes later in the
\* mapping's enumeration order.
C26_LaterCollectionWins ==
    (pc = "returned" /\ ServerMode = "CollectionsHttps") =>
        \A d \in domainsOf(built) :
            \A i, j \in listing(built, d) :
                (i < j /\ \A k \in listing(built, d) : k <= j)
                    => Get(contexts, d) = contextOf(built, j)

\* C26 witness: the table in use was built from two collections with different keys
\* that both list '*.e.c', and binds it to the context of the second
C26_Witness ==
    /\ pc = "returned"
    /\ ServerMode = "CollectionsHttps"
    /\ listing(built, hWild) = {1, 2}
    /\ contextOf(built, 1).key # contextOf(built, 2).key
    /\ Get(contexts, hWild) = contextOf(built, 2)

\* C27: a collection whose TLS context cannot be compiled does not abort a table build,
\* at bootstrap or in a live update: init() does not fail in buildSecureContexts, the
\* callback leaves no exception behind, and the table holds the domains of every other
\* collection of the mapping.
C27_FailedCompileIsSkipped ==
    (secure /\ selectorTrueOrUnset) =>
        /\ pc = "threw" => error.message # "buildSecureContexts"
        /\ \A entry \in log : entry.level # "uncaught"
        /\ (pc = "returned" /\ ServerMode = "CollectionsHttps" /\ queue = <<>>
                /\ Truthy(obj) /\ Truthy(obj.native.collections))
              => KeySet(contexts) = storedDomains

\* the context compiled at bootstrap from the fallback material init() loaded
bootstrapFallback ==
    SecureContext(IF Truthy(customCertificates) THEN customCertificates.key ELSE <<>>, custom)

\* C28: the fallback context is set once during init() and never replaced: no step
\* after init() returned changes it or the material it was compiled from, and the
\* fallback step of every handshake, before and after change notifications, hands out
\* the context compiled at bootstrap.
C28_FallbackSetOnce ==
    [][/\ pc = "returned"
          => /\ customCertificatesContext' = customCertificatesContext
             /\ customCertificates' = customCertificates
       /\ (sni'.tag = "called" /\ sni'.result.branch = "fallback")
          => sni'.result.context = bootstrapFallback']_vars

\* C28 witness: after a change notification emptied the table, a handshake got the
\* fallback context compiled from the material loaded at bootstrap
C28_Witness ==
    /\ resolved
    /\ fallbackLoaded
    /\ sni.seen = 1
    /\ notified
    /\ delivered.called
    /\ sni.table = Obj(<<>>)
    /\ sni.result.branch = "fallback"
    /\ sni.result.context = customCertificatesContext
    /\ sni.result.context.key = customCertificates.key

\* C29: the server mode is decided once by init(): after init() returned no step, store
\* changes and their notifications included, changes the server or the subscription;
\* and when init() returns a subscription is open if and only if the mode is
\* CollectionsHttps.
C29_ModeDecidedOnce ==
    [][/\ pc = "returned"
          => /\ pc' = pc
             /\ server' = server
             /\ listener' = listener
       /\ pc' = "returned"
          => /\ Truthy(listener') <=> ServerMode' = "CollectionsHttps"
             /\ "subscribeForeignObjects" \in io' <=> ServerMode' = "CollectionsHttps"]_vars

\* C29 witness: a server that degraded to the fallback certificates on an empty store is
\* still in that mode, without subscription, after a collection was stored
C29_Witness ==
    /\ pc = "returned"
    /\ selectorTrueOrUnset
    /\ ServerMode = "FallbackOnlyHttps"
    /\ listener = Undefined
    /\ changes = 1
    /\ Len(collectionsOf(obj).entries) = 1

\* a certificate record in which none of key, cert and (when present) ca is a bare
\* filesystem path
recordWithoutPaths(result) ==
    /\ result.tag = "object"
    /\ ~endsWithPem(result.key)
    /\ ~endsWithPem(result.cert)
    /\ ~(Truthy(result.ca) /\ result.ca.tag = "string" /\ endsWithPem(result.ca.value))

\* C30: whatever the host's certificate lookup gave, the fallback loader returns the
\* certificate material if and only if that was a record without bare .pem paths;
\* otherwise it logs an error and returns null (fallback absent), and it never reads a file.
C30_LoaderReturnsMaterialOrLogsError ==
    [][\A result \in HostCertificateResults :
          InitCertificates(result)
          => LET loaded == getCustomCertificates(result)
             IN  /\ ~loaded.threw
                 /\ pc' # "threw" \/ error'.message # "getCertificatesAsync rejected"
                 /\ "readFile" \notin io'
                 /\ IF recordWithoutPaths(result)
                    THEN /\ loaded.value = result
                         /\ customCertificates' = result
                    ELSE /\ loaded.value = Null
                         /\ customCertificates' = Null
                         /\ \E entry \in loaded.log : entry.level = "error"]_vars

----------------------------------------------------------------------------
\* C32 to C34: the SNI hook, the value init() resolves with, the access-control wrapper.

\* C32: a handshake is resolved in one step that reads neither the store nor anything
\* else outside the closure (no external call is made, init's position and the pending
\* notifications are untouched), and the hook calls its completion callback exactly once
\* and never with an error: for the table and fallback in use, and in each branch a
\* missing table or a missing fallback would select.
C32_HookCallsBackOnce ==
    [][\A serverName \in ServerNames :
          Handshake(serverName)
          => /\ io' = io
             /\ obj' = obj
             /\ pc' = pc
             /\ queue' = queue
             /\ sni'.result.calls = 1
             /\ sni'.result.err = Null
             /\ \A table \in {contexts, Undefined, Obj(<<>>)},
                  fallback \in {customCertificatesContext, Undefined} :
                    /\ SNICallback(table, fallback, serverName).calls = 1
                    /\ SNICallback(table, fallback, serverName).err = Null]_vars

\* C32 witness: a handshake for a name the table does not cover was answered with the
\* fallback context, by one callback without error
C32_Witness ==
    /\ resolved
    /\ sni.result.branch = "fallback"
    /\ sni.result.calls = 1
    /\ sni.result.err = Null
    /\ sni.result.context = customCertificatesContext

\* C33: on every path on which init() resolves (plain http, fallback https by either
\* selector path, https with the SNI hook) the server it returns is the server held in
\* the instance's server field; while init() has not resolved, nothing was returned.
C33_ReturnedIsServerField ==
    /\ pc = "returned" => returned.tag = "Server" /\ returned = server
    /\ pc # "returned" => returned = Undefined

\* C33 witness: init() resolved with the fallback https server after reading an empty store
C33_Witness ==
    /\ pc = "returned"
    /\ selectorTrueOrUnset
    /\ ServerMode = "FallbackOnlyHttps"
    /\ returned = server

\* C34: when access-control options are configured, the request listener of the created
\* server is the header-setting wrapper in every server mode, and every request gets the
\* configured headers before the original application runs.
C34_WrapperInEveryMode ==
    /\ pc = "returned" /\ hasAccessControl(accessControl)
       => requestListener = Wrapper(App)
    /\ response # Undefined /\ hasAccessControl(accessControl)
       => /\ response.headers = setHeaders(accessControl)
          /\ response.headers # <<>>
          /\ response.ran = App

----------------------------------------------------------------------------
----------------------------------------------------------------------------
\* C31, C35, C36: concurrent writers, and what a write leaves under its id.

\* both concurrent calls are over
writersDone == \A w \in {1, 2} : writers[w].pc = "done"

\* what the store holds under id
persisted(collectionId) == Get(collectionsOf(obj), collectionId)

\* C31: two writers on the same collection id are not serialized (either call's write
\* may be applied between the other's read and write), and once both are over the store
\* holds under that id what the write applied last produced: the entry that write
\* stored, with every field of the collection given to a setCollection, and nothing
\* after a delCollection.
C31_LastWriteWins ==
    /\ writersDone
    /\ writers[1].id = writers[2].id
    /\ applied # <<>>
    => LET last == applied[Len(applied)]
       IN  /\ persisted(last.id) = Get(collectionsOf(last.object), last.id)
           /\ IF last.op = "setCollection"
              THEN /\ persisted(last.id).tag = "collection"
                   /\ \A k \in DOMAIN last.collection :
                          persisted(last.id)[k] = last.collection[k]
              ELSE persisted(last.id) = Undefined

\* C31 witness: a delCollection read the object, a setCollection on the same id wrote,
\* then the delCollection's write was applied: both calls are over and the id is gone
C31_Witness ==
    /\ writersDone
    /\ writers[1].id = writers[2].id
    /\ Len(applied) = 2
    /\ applied[1].op = "setCollection"
    /\ applied[2].op = "delCollection"
    /\ persisted(writers[1].id) = Undefined

\* C35: for two different ids a and b, once a delCollection(a) and a successful
\* setCollection(b, X) that ran at the same time are both over, whatever their
\* interleaving, the store holds X under b.
C35_DeleteKeepsConcurrentSet ==
    \A w \in {1, 2}, v \in {1, 2} :
        /\ writersDone
        /\ writers[w].op = "delCollection"
        /\ ~writers[w].threw
        /\ writers[v].op = "setCollection"
        /\ ~writers[v].threw
        /\ writers[w].id # writers[v].id
        => getCollection(obj, FALSE, writers[v].id).value = writers[v].collection

\* C36: a getCollection(id) that follows a successful setCollection(id, X), with no other
\* call in between and a successful read, resolves with exactly X, whatever the store
\* held before: no field of a collection stored earlier under id survives the write.
C36_SetReplacesEntry ==
    [][/\ calling("getCollection")
       /\ ~call'.readFails
       /\ call.tag = "call"
       /\ call.op = "setCollection"
       /\ ~call.threw
       /\ call.id = call'.id
       => call'.value = call.collection]_vars

----------------------------------------------------------------------------

\* C37, C38: the table in use under notifications.

\* C37: when the subscription callback is called with an error (the selected collection
\* id is absent after a change), or with neither error nor mapping, the table in use
\* and the mapping it was built from are left as they were, and a handshake resolves
\* against that table.
C37_ErrorLeavesTable ==
    [][/\ /\ delivered' # delivered
          /\ delivered'.tag = "event"
          /\ delivered'.called
          /\ Truthy(delivered'.err) \/ ~Truthy(delivered'.collections)
          => /\ contexts' = contexts
             /\ built' = built
             /\ customCertificatesContext' = customCertificatesContext
       /\ Truthy(listener)
          => onCollections(contexts, customCertificatesContext, listener.filter,
                           Null, Undefined).contexts = contexts
       /\ \A serverName \in ServerNames :
             Handshake(serverName) => sni'.table = contexts /\ contexts' = contexts]_vars

\* C37 witness: the selected collection was removed while another stayed, the callback
\* got the error, and the table built at bootstrap is still in use
C37_Witness ==
    /\ pc = "returned"
    /\ selectorSpecific
    /\ notified
    /\ delivered.called
    /\ Truthy(delivered.err)
    /\ Truthy(contexts)
    /\ Len(Keys(contexts)) > 0
    /\ queue = <<>>

\* C38: with a specific collection id as selector the subscription is filtered on that
\* id, and every table put in use, at bootstrap and by any notification, has as its keys
\* exactly the domains of the selected collection in the version read or delivered at
\* that step: a domain listed only by other collections never enters the table.
C38_TableOfSelectedCollectionOnly ==
    [][selectorSpecific
       => /\ pc' = "returned" /\ ServerMode' = "CollectionsHttps"
             => /\ Truthy(listener')
                /\ listener'.filter = leCollection
          /\ contexts' # contexts
             => LET source == IF delivered' # delivered THEN delivered'.object ELSE obj
                    selected == Get(collectionsOf(source), leCollection.value)
                IN  /\ selected.tag = "collection"
                    /\ KeySet(contexts') = Range(selected.domains)]_vars

\* C38 witness: the store holds the selected collection and another one listing a
\* further domain; the notification was handled and the table has the selected
\* collection's domain only
C38_Witness ==
    /\ pc = "returned"
    /\ selectorSpecific
    /\ notified
    /\ delivered.called
    /\ ~Truthy(delivered.err)
    /\ Len(changedCollections.entries) = 2
    /\ hSub \in domainsOf(changedCollections)
    /\ KeySet(contexts) = {hWild}

----------------------------------------------------------------------------
\* C39: the failed-attempt records of OAuth2Model.getUser.

\* the lockout window, in milliseconds, for a failure count above 4
windowOf(errors) ==
    IF errors < 7 THEN 60000
    ELSE IF errors < 10 THEN 180000
    ELSE IF errors < 15 THEN 600000
    ELSE 3600000

\* the failure count recorded for a username: 0 without a record
countOf(records, username) ==
    IF username \in KeySet(records) THEN Get(records, username).errors ELSE Num(0)

\* username has more than 4 recorded failures, the last one inside the window of that count
blocked(username) ==
    /\ username \in KeySet(bruteForce)
    /\ countOf(bruteForce, username).tag = "number"
    /\ countOf(bruteForce, username).value > 4
    /\ now - Get(bruteForce, username).time.value
         < windowOf(countOf(bruteForce, username).value)

\* the records of every username but one are the same before and after the step
othersUntouched(username) ==
    \A other \in Usernames \ {username} :
        /\ other \in KeySet(bruteForce') <=> other \in KeySet(bruteForce)
        /\ other \in KeySet(bruteForce) => Get(bruteForce', other) = Get(bruteForce, other)

\* C39: a getUser call for a blocked username resolves with null without a password
\* check and without touching the records, and a call for a username that is not blocked
\* goes on to the password check whatever is recorded for other usernames; a failed
\* check raises the username's failure count by exactly 1, a successful one removes its
\* record, and neither touches the record of another username.
C39_FailureRecords ==
    [][/\ \A username \in Usernames :
             GetUser(username)
             => /\ bruteForce' = bruteForce
                /\ IF blocked(username)
                   THEN /\ pending' = pending
                        /\ user' = Resolved(username, Null, FALSE, FALSE)
                   ELSE pending' = Append(pending, username)
       /\ \A i \in 1..MaxCalls, success \in BOOLEAN :
             CheckPassword(i, success)
             => /\ othersUntouched(pending[i])
                /\ user'.checked
                /\ IF success
                   THEN pending[i] \notin KeySet(bruteForce')
                   ELSE /\ countOf(bruteForce, pending[i]).tag = "number"
                        /\ countOf(bruteForce', pending[i])
                             = Num(countOf(bruteForce, pending[i]).value + 1)]_vars

====
